---------------------------- MODULE Spec2Model ----------------------------
(***************************************************************************)
(* A model of the TUM CS Bot driver (src/src/tumcsbot/tumcsbot.py):        *)
(*   - TumCSBot.startPlugins        (specification SpecStart)              *)
(*   - TumCSBot.run                 (specification Spec)                   *)
(*   - TumCSBot.zulip_event_preprocess (operator, specification SpecPre)   *)
(* of the course plugin (src/src/tumcsbot/plugins/course.py, specifications *)
(* SpecCourse and SpecCourseFault) and of Response.build_message           *)
(* (src/src/tumcsbot/lib.py, specification SpecReply).                     *)
(* Strings are sequences of one-character strings, dictionaries are        *)
(* records or functions, a missing dictionary key is an empty sequence     *)
(* where the key's value would be a one-element sequence.                  *)
(***************************************************************************)
EXTENDS Integers, Sequences, FiniteSets, TLC

VARIABLES
    \* --- startPlugins -------------------------------------------------
    plugin_classes,   \* the iterable handed to startPlugins: a sequence of classes
    start_state,      \* "called" | "done" | "CycleError" | "KeyError" | "ValueError"
    instantiated,     \* the classes (indexes into plugin_classes) instantiated, in order
    plugins,          \* self.plugins: plugin name -> instance (the index of its class)
    \* --- run ----------------------------------------------------------
    run_state,        \* "idle" | "loop" | "returned" | "AttributeError"
    stopped,          \* self.stopped
    restart,          \* self.restart
    event_queue,      \* self.event_queue: the events put and not yet got
    arrived,          \* history: every event put on the queue, in order
    dequeued,         \* history: every event the loop got, in order
    outcome,          \* history: what the loop did with each dequeued event
    tasks,            \* the local list "tasks" of run()
    handlers,         \* every handler task ever created: its plugin, event and state
    torn_down,        \* the plugins whose teardown has been carried out
    \* --- zulip_event_preprocess ---------------------------------------
    pre_state,        \* "idle" | "called" | "once" | "twice"
    pre_event,        \* the event handed to zulip_event_preprocess
    pre_result,       \* what the first call and the second call returned or raised
    \* --- course plugin -------------------------------------------------
    courses,          \* the rows of table Courses
    streamgroups,     \* the rows of table StreamGroups
    usergroups,       \* the rows of table UserGroups
    chat_streams,     \* the names of the streams that exist on the chat server
    next_course_id,   \* the next value of the autoincrement key Courses.CourseId
    commands,         \* history: how many course commands have been handed to a task
    course_tasks,     \* the course command each handler task is running, and where
    \* --- Response.build_message ---------------------------------------
    reply_call,       \* the arguments build_message is called with
    reply_result      \* what the call returned or raised, once it is over

start_vars == <<plugin_classes, start_state, instantiated, plugins>>
run_vars == <<run_state, stopped, restart, event_queue, arrived, dequeued,
              outcome, tasks, handlers, torn_down>>
pre_vars == <<pre_state, pre_event, pre_result>>
course_vars == <<courses, streamgroups, usergroups, chat_streams, next_course_id,
                 commands, course_tasks>>
reply_vars == <<reply_call, reply_result>>
vars == <<start_vars, run_vars, pre_vars, course_vars, reply_vars>>

-----------------------------------------------------------------------------
(* Bounds of the model *)

\* longest command line (the message content without the mention), in characters
MaxLen == 4
\* most plugin classes handed to startPlugins
MaxClasses == 3
\* most events put on the central queue in one run
MaxEvents == 2

-----------------------------------------------------------------------------
(* Strings *)

Chars == {"@", "b", " ", "\t"}
Whitespace == {" ", "\t"}

\* all strings of at most n characters
RECURSIVE StringsUpTo(_)
StringsUpTo(n) ==
    IF n = 0 THEN {<<>>}
    ELSE LET shorter == StringsUpTo(n - 1)
         IN shorter \cup {Append(s, c) : s \in {t \in shorter : Len(t) = n - 1}, c \in Chars}

\* s[i:] of Python, i counted from 0
SliceFrom(s, i) == IF i >= Len(s) THEN <<>> ELSE SubSeq(s, i + 1, Len(s))

\* str.startswith
startswith(s, prefix) ==
    /\ Len(prefix) <= Len(s)
    /\ SubSeq(s, 1, Len(prefix)) = prefix

\* the index of the first character of s at or after i (from 1) that is
\* (want = TRUE) or is not (want = FALSE) whitespace; Len(s) + 1 if none
RECURSIVE Scan(_, _, _)
Scan(s, i, want) ==
    IF i > Len(s) THEN Len(s) + 1
    ELSE IF (s[i] \in Whitespace) = want THEN i
    ELSE Scan(s, i + 1, want)

\* str.split(maxsplit=1) without separator: leading whitespace is skipped; the
\* first word ends at the next whitespace; the whitespace after it is skipped
\* and what is left, if anything, is the second item, trailing whitespace kept.
split_maxsplit_1(s) ==
    LET i == Scan(s, 1, FALSE)
        j == Scan(s, i, TRUE)
        k == Scan(s, j, FALSE)
    IN IF i > Len(s) THEN <<>>
       ELSE IF k > Len(s) THEN <<SubSeq(s, i, j - 1)>>
       ELSE <<SubSeq(s, i, j - 1), SubSeq(s, k, Len(s))>>

-----------------------------------------------------------------------------
(* The chat client (tumcsbot/client.py is not among the sources) *)

\* self.client.id: the bot's own user id
BotId == "bot"
\* self.client.ping: the mention string "@**<full name>**"
ping == <<"@", "b">>
\* self.client.ping_len
ping_len == Len(ping)

\* self.client.is_only_pm_recipient(message): a private message, not sent by
\* the bot, whose recipients are the sender and the bot
is_only_pm_recipient(message) ==
    /\ message.type = "private"
    /\ message.sender_id # BotId
    /\ Cardinality(message.display_recipient) = 2
    /\ BotId \in message.display_recipient

-----------------------------------------------------------------------------
(* Zulip events *)

\* a key that the dictionary does not have
Absent == <<"<absent>">>

Message(sender, type, content, recipients) ==
    [sender_id |-> sender, type |-> type, content |-> content,
     display_recipient |-> recipients,
     command_name |-> Absent, command |-> Absent]

\* event data: "message" holds the message, or nothing when the key is missing
MessageEvent(m) == [type |-> "message", message |-> <<m>>]
PlainEvent(type) == [type |-> type, message |-> <<>>]

Returned(event) == [raised |-> FALSE, event |-> event]
Raised(event) == [raised |-> TRUE, event |-> event]

\* lines 295-306 with the mention left in the command line
attach_command_keeps_mention(event, startswithping) ==
    LET message == event.message[1]
        cmd == split_maxsplit_1(message.content)
    IN [event EXCEPT !.message =
           <<[message EXCEPT
                !.command_name = IF Len(cmd) > 0 THEN cmd[1] ELSE <<>>,
                !.command = IF Len(cmd) > 1 THEN cmd[2] ELSE <<>>]>>]

\* lines 295-306 with the slice of line 296 taken in every case
attach_command_always_strips(event, startswithping) ==
    LET message == event.message[1]
        cmd == split_maxsplit_1(SliceFrom(message.content, ping_len))
    IN [event EXCEPT !.message =
           <<[message EXCEPT
                !.command_name = IF Len(cmd) > 0 THEN cmd[1] ELSE <<>>,
                !.command = IF Len(cmd) > 1 THEN cmd[2] ELSE <<>>]>>]

\* lines 295-306 with the fields attached only when the split gave a word
attach_command_skips_empty(event, startswithping) ==
    LET message == event.message[1]
        content == IF startswithping THEN SliceFrom(message.content, ping_len)
                   ELSE message.content
        cmd == split_maxsplit_1(content)
    IN IF Len(cmd) = 0 THEN event
       ELSE [event EXCEPT !.message =
               <<[message EXCEPT
                    !.command_name = cmd[1],
                    !.command = IF Len(cmd) > 1 THEN cmd[2] ELSE <<>>]>>]

\* lines 295-306: the command line is split and attached to the message
attach_command(event, startswithping) ==
    LET message == event.message[1]
        content == IF startswithping THEN SliceFrom(message.content, ping_len)
                   ELSE message.content
        cmd == split_maxsplit_1(content)
    IN [event EXCEPT !.message =
           <<[message EXCEPT
                !.command_name = IF Len(cmd) > 0 THEN cmd[1] ELSE <<>>,
                !.command = IF Len(cmd) > 1 THEN cmd[2] ELSE <<>>]>>]

\* lines 278-289 without the test of the sender (line 280)
not_a_command_any_sender(message, startswithping) ==
    \/ (message.type # "private" /\ ~startswithping)
    \/ (message.type = "private"
        /\ (startswithping \/ ~is_only_pm_recipient(message)))

\* lines 278-289 without the test of line 281
not_a_command_no_mention_test(message, startswithping) ==
    \/ message.sender_id = BotId
    \/ (message.type = "private"
        /\ (startswithping \/ ~is_only_pm_recipient(message)))

\* lines 278-289 without the test of lines 282-288
not_a_command_any_private(message, startswithping) ==
    \/ message.sender_id = BotId
    \/ (message.type # "private" /\ ~startswithping)

\* lines 278-289: the event is no command and is returned as it is
not_a_command(message, startswithping) ==
    \/ message.sender_id = BotId
    \/ (message.type # "private" /\ ~startswithping)
    \/ (message.type = "private"
        /\ (startswithping \/ ~is_only_pm_recipient(message)))

\* TumCSBot.zulip_event_preprocess; a KeyError (a message event without its
\* "message") is the exception it raises
zulip_event_preprocess(event) ==
    IF event.type # "message" THEN Returned(event)
    ELSE IF event.message = <<>> THEN Raised(event)
    ELSE LET message == event.message[1]
             startswithping == startswith(message.content, ping)
         IN IF not_a_command(message, startswithping) THEN Returned(event)
            ELSE Returned(attach_command(event, startswithping))

-----------------------------------------------------------------------------
(* startPlugins *)

PluginNames == {"a", "b", "c"}
\* a plugin class: its plugin_name() and its dependencies
PluginClasses == [name : PluginNames, dependencies : SUBSET PluginNames]

RECURSIVE SeqsUpTo(_, _)
SeqsUpTo(S, n) ==
    IF n = 0 THEN {<<>>}
    ELSE LET shorter == SeqsUpTo(S, n - 1)
         IN shorter \cup {Append(s, c) : s \in {t \in shorter : Len(t) = n - 1}, c \in S}

NoPlugins == [n \in {} |-> 0]

\* the index of the last class of the sequence that has this name: a later
\* item of a dict comprehension replaces an earlier one with the same key
LastWithName(classes, name) ==
    CHOOSE i \in 1..Len(classes) :
        /\ classes[i].name = name
        /\ \A j \in (i + 1)..Len(classes) : classes[j].name # name

\* lines 234-236: plugin name -> plugin class
plugin_class_dict(classes) ==
    [n \in {classes[i].name : i \in 1..Len(classes)} |-> LastWithName(classes, n)]

\* lines 237-240: plugin name -> the names it depends on
plugin_graph(classes) ==
    [n \in {classes[i].name : i \in 1..Len(classes)} |->
        classes[LastWithName(classes, n)].dependencies]

\* TopologicalSorter(graph): every key and every predecessor is a node
Nodes(graph) == DOMAIN graph \cup UNION {graph[n] : n \in DOMAIN graph}
Predecessors(graph, n) == IF n \in DOMAIN graph THEN graph[n] ELSE {}

\* the nodes from which n is reached over at most k edges, n itself left out
\* unless an edge leads back to it
RECURSIVE Ancestors(_, _, _)
Ancestors(graph, n, k) ==
    IF k = 0 THEN {}
    ELSE LET near == Predecessors(graph, n)
         IN near \cup UNION {Ancestors(graph, m, k - 1) : m \in near}

\* TopologicalSorter.prepare(): _find_cycle
find_cycle(graph) ==
    \E n \in Nodes(graph) : n \in Ancestors(graph, n, Cardinality(Nodes(graph)))

\* the round of get_ready() in which static_order() hands the node out: a
\* node is ready once all its predecessors are done
RECURSIVE Round(_, _)
Round(graph, n) ==
    LET before == Predecessors(graph, n)
    IN IF before = {} THEN 0
       ELSE 1 + CHOOSE r \in {Round(graph, m) : m \in before} :
                    \A m \in before : Round(graph, m) <= r

\* the nodes in any order, dependencies not looked at
static_order_unsorted(graph) ==
    {order \in SeqsUpTo(Nodes(graph), Cardinality(Nodes(graph))) :
        /\ Len(order) = Cardinality(Nodes(graph))
        /\ \A i, j \in 1..Len(order) : i < j => order[i] # order[j]}

\* TopologicalSorter(graph).static_order() for a graph without cycle: the
\* nodes round by round; the order within a round is the insertion order of
\* a dict filled from sets, which is any order
static_order(graph) ==
    {order \in SeqsUpTo(Nodes(graph), Cardinality(Nodes(graph))) :
        /\ Len(order) = Cardinality(Nodes(graph))
        /\ \A i, j \in 1..Len(order) :
              i < j => /\ order[i] # order[j]
                       /\ Round(graph, order[i]) <= Round(graph, order[j])}

\* the loop over the order with a name that has no class passed over
RECURSIVE start_in_order_skips_unknown(_, _, _)
start_in_order_skips_unknown(classes, order, i) ==
    IF i = 0 THEN [status |-> "done", instantiated |-> <<>>, plugins |-> NoPlugins]
    ELSE LET before == start_in_order_skips_unknown(classes, order, i - 1)
             plugin_name == order[i]
             dict == plugin_class_dict(classes)
         IN IF before.status # "done" \/ plugin_name \notin DOMAIN dict THEN before
            ELSE LET plugin == dict[plugin_name]
                     made == Append(before.instantiated, plugin)
                 IN IF plugin_name \in DOMAIN before.plugins
                    THEN [before EXCEPT !.status = "ValueError",
                                        !.instantiated = made]
                    ELSE [status |-> "done",
                          instantiated |-> made,
                          plugins |-> [n \in DOMAIN before.plugins \cup {plugin_name} |->
                                          IF n = plugin_name THEN plugin
                                          ELSE before.plugins[n]]]

\* lines 242-253, the loop over the order: the state after name number i
RECURSIVE start_in_order(_, _, _)
start_in_order(classes, order, i) ==
    IF i = 0 THEN [status |-> "done", instantiated |-> <<>>, plugins |-> NoPlugins]
    ELSE LET before == start_in_order(classes, order, i - 1)
             plugin_name == order[i]
             dict == plugin_class_dict(classes)
         IN IF before.status # "done" THEN before
            ELSE IF plugin_name \notin DOMAIN dict
                 THEN [before EXCEPT !.status = "KeyError"]
            ELSE LET plugin == dict[plugin_name]
                     made == Append(before.instantiated, plugin)
                 IN IF plugin_name \in DOMAIN before.plugins
                    THEN [before EXCEPT !.status = "ValueError",
                                        !.instantiated = made]
                    ELSE [status |-> "done",
                          instantiated |-> made,
                          plugins |-> [n \in DOMAIN before.plugins \cup {plugin_name} |->
                                          IF n = plugin_name THEN plugin
                                          ELSE before.plugins[n]]]

\* TumCSBot.startPlugins
startPlugins ==
    /\ start_state = "called"
    /\ LET graph == plugin_graph(plugin_classes)
       IN IF find_cycle(graph)
          THEN /\ start_state' = "CycleError"
               /\ UNCHANGED <<instantiated, plugins>>
          ELSE \E order \in static_order(graph) :
                  LET end == start_in_order(plugin_classes, order, Len(order))
                  IN /\ start_state' = end.status
                     /\ instantiated' = end.instantiated
                     /\ plugins' = end.plugins
    /\ UNCHANGED <<plugin_classes, run_vars, pre_vars, course_vars, reply_vars>>

-----------------------------------------------------------------------------
(* Specification SpecStart: startPlugins on any classes *)

RunIdle ==
    /\ run_state = "idle"
    /\ stopped = FALSE
    /\ restart = FALSE
    /\ event_queue = <<>>
    /\ arrived = <<>>
    /\ dequeued = <<>>
    /\ outcome = <<>>
    /\ tasks = {}
    /\ handlers = <<>>
    /\ torn_down = {}

PreIdle ==
    /\ pre_state = "idle"
    /\ pre_event = PlainEvent("heartbeat")
    /\ pre_result = <<>>

\* build_message has not been called
ReplyIdle ==
    /\ reply_call = <<>>
    /\ reply_result = <<>>

\* no course command has been handled: the tables are empty
CourseIdle ==
    /\ courses = {}
    /\ streamgroups = {}
    /\ usergroups = {}
    /\ chat_streams = {}
    /\ next_course_id = 1
    /\ commands = 0
    /\ course_tasks = <<>>

\* TumCSBot.__init__, lines 111 and 152-155: no plugin yet, startPlugins called
InitStart ==
    /\ plugin_classes \in SeqsUpTo(PluginClasses, MaxClasses)
    /\ start_state = "called"
    /\ instantiated = <<>>
    /\ plugins = NoPlugins
    /\ RunIdle
    /\ PreIdle
    /\ CourseIdle
    /\ ReplyIdle

NextStart == startPlugins

SpecStart == InitStart /\ [][NextStart]_vars

-----------------------------------------------------------------------------
(* Claims about startPlugins *)

ClassNames == {plugin_classes[i].name : i \in 1..Len(plugin_classes)}
StartEnded == start_state # "called"
StartFailed == start_state \in {"CycleError", "KeyError", "ValueError"}

\* a path of declared dependencies leads from a plugin name back to itself;
\* the declared dependencies of a name are those startPlugins reads for it
DependsOn(from, to) == to \in Predecessors(plugin_graph(plugin_classes), from)
DeclaredCycle ==
    \E path \in SeqsUpTo(PluginNames, Cardinality(PluginNames)) :
        /\ Len(path) >= 1
        /\ \A i \in 1..(Len(path) - 1) : DependsOn(path[i], path[i + 1])
        /\ DependsOn(path[Len(path)], path[1])

DuplicateName ==
    \E i, j \in 1..Len(plugin_classes) :
        i # j /\ plugin_classes[i].name = plugin_classes[j].name

\* C5: startPlugins fails fatally whenever two of the plugin classes have the
\* same plugin name.
C5_DuplicateNameFails == (StartEnded /\ DuplicateName) => StartFailed

\* C6: after a successful startPlugins every class has been instantiated
\* exactly once and the live-plugin mapping has exactly one entry per plugin
\* name, the instance of the class with that name.
C6_EveryClassOnce ==
    start_state = "done" =>
        /\ \A c \in 1..Len(plugin_classes) :
              Cardinality({i \in 1..Len(instantiated) : instantiated[i] = c}) = 1
        /\ DOMAIN plugins = ClassNames
        /\ \A n \in DOMAIN plugins : plugin_classes[plugins[n]].name = n

-----------------------------------------------------------------------------
(* run *)

\* Event(sender, type, data) of tumcsbot/plugin.py; type is EventType.ZULIP,
\* EventType._EMPTY or another member of EventType
Event(sender, type, data) == [sender |-> sender, type |-> type, data |-> data]
NoData == PlainEvent("none")

\* what self.client.events() yields here: a keep-alive, a command written to
\* the bot in a stream, and a message event that lacks its "message"
CommandData ==
    MessageEvent(Message("alice", "stream", ping \o <<" ", "b", " ", "b">>, {}))
EventData == {PlainEvent("heartbeat"), CommandData, PlainEvent("message")}

\* what the plugins put on the queue through PluginContext's put
LoopbackEvents ==
    {Event("restart", "_EMPTY", NoData),
     Event("stop", "_EMPTY", NoData),
     Event("restart", "OTHER", NoData)}

\* a queue whose get takes the newest event
queue_get_newest(queue) ==
    [event |-> queue[Len(queue)], queue |-> SubSeq(queue, 1, Len(queue) - 1)]

\* a queue whose put places the event before those that wait
queue_put_front(queue, event) == <<event>> \o queue

\* asyncio.Queue: put appends, get takes the oldest
queue_put(queue, event) == Append(queue, event)
queue_get(queue) == [event |-> Head(queue), queue |-> Tail(queue)]

\* line 190: the listener task puts what the client yields on the queue
event_listener ==
    /\ run_state # "idle"
    /\ Len(arrived) < MaxEvents
    /\ \E event_data \in EventData :
          LET event == Event("_root", "ZULIP", event_data)
          IN /\ event_queue' = queue_put(event_queue, event)
             /\ arrived' = Append(arrived, event)
    /\ UNCHANGED <<run_state, stopped, restart, dequeued, outcome, tasks, handlers,
                   torn_down, start_vars, pre_vars, course_vars, reply_vars>>

\* line 247: a plugin puts an event on the queue with the put it was given
plugin_loopback ==
    /\ run_state # "idle"
    /\ DOMAIN plugins # {}
    /\ Len(arrived) < MaxEvents
    /\ \E event \in LoopbackEvents :
          /\ event_queue' = queue_put(event_queue, event)
          /\ arrived' = Append(arrived, event)
    /\ UNCHANGED <<run_state, stopped, restart, dequeued, outcome, tasks, handlers,
                   torn_down, start_vars, pre_vars, course_vars, reply_vars>>

\* line 200: the tasks that are done leave the list
not_done(task_list) == {t \in task_list : handlers[t].state = "pending"}

\* lines 218-221 without the test of line 219
to_schedule_all(answers) == DOMAIN answers

\* lines 218-221: a handler task for each plugin whose is_responsible is true
to_schedule(answers) == {p \in DOMAIN answers : answers[p]}

\* the members of a finite set, one after the other
RECURSIVE SeqOf(_)
SeqOf(S) ==
    IF S = {} THEN <<>>
    ELSE LET x == CHOOSE y \in S : TRUE IN <<x>> \o SeqOf(S \ {x})

create_tasks(chosen, event_no) ==
    [i \in 1..Len(SeqOf(chosen)) |->
        [plugin |-> SeqOf(chosen)[i], event |-> event_no, state |-> "pending"]]

\* lines 223-225: stopPlugin is called for each plugin; TumCSBot has no
\* attribute stopPlugin, so the first call raises AttributeError
stop_plugins(names) ==
    IF names = {} THEN [state |-> "returned", torn_down |-> {}]
    ELSE [state |-> "AttributeError", torn_down |-> {}]

\* a run() without lines 210-211: no event is taken for a keep-alive
is_heartbeat_never(event) == FALSE

\* line 210: the event is a keep-alive
is_heartbeat(event) == event.data.type = "heartbeat"

\* line 203 without the test of the sender
restart_requested_any_sender(event) == event.type = "_EMPTY"

\* line 203: the sentinel asks for a restart
restart_requested(event) == event.type = "_EMPTY" /\ event.sender = "restart"

\* line 198: the loop is given the oldest event of the queue
Take(got) ==
    /\ event_queue' = got.queue
    /\ dequeued' = Append(dequeued, got.event)

Note(kind, event_data, asked, answers) ==
    [kind |-> kind, data |-> event_data, asked |-> asked, answers |-> answers]
NoAnswers == [p \in {} |-> FALSE]

\* a run() without the break of line 206: stopped is set and the loop goes on
run_stop_without_break ==
    /\ run_state = "loop"
    /\ event_queue # <<>>
    /\ LET got == queue_get(event_queue)
       IN /\ stopped \/ got.event.type = "_EMPTY"
          /\ Take(got)
          /\ tasks' = not_done(tasks)
          /\ restart' = IF restart_requested(got.event) THEN TRUE ELSE restart
          /\ stopped' = TRUE
          /\ outcome' = Append(outcome, Note("stop", got.event.data, {}, NoAnswers))
    /\ UNCHANGED <<run_state, torn_down, handlers, arrived, start_vars, pre_vars,
                   course_vars, reply_vars>>

\* a run() without lines 202-206: a sentinel is taken and nothing is done
run_stop_ignored ==
    /\ run_state = "loop"
    /\ event_queue # <<>>
    /\ LET got == queue_get(event_queue)
       IN /\ stopped \/ got.event.type = "_EMPTY"
          /\ Take(got)
          /\ tasks' = not_done(tasks)
          /\ outcome' = Append(outcome, Note("ignored", got.event.data, {}, NoAnswers))
    /\ UNCHANGED <<run_state, stopped, restart, torn_down, handlers, arrived,
                   start_vars, pre_vars, course_vars, reply_vars>>

\* a run() that cancels the handler tasks of its list when the loop ends
run_stop_cancels ==
    /\ run_state = "loop"
    /\ event_queue # <<>>
    /\ LET got == queue_get(event_queue)
           end == stop_plugins(DOMAIN plugins)
       IN /\ stopped \/ got.event.type = "_EMPTY"
          /\ Take(got)
          /\ tasks' = not_done(tasks)
          /\ handlers' = [t \in 1..Len(handlers) |->
                            IF t \in not_done(tasks)
                            THEN [handlers[t] EXCEPT !.state = "cancelled"]
                            ELSE handlers[t]]
          /\ restart' = IF restart_requested(got.event) THEN TRUE ELSE restart
          /\ stopped' = TRUE
          /\ outcome' = Append(outcome, Note("stop", got.event.data, {}, NoAnswers))
          /\ run_state' = end.state
          /\ torn_down' = torn_down \cup end.torn_down
    /\ UNCHANGED <<arrived, start_vars, pre_vars, course_vars, reply_vars>>

\* lines 198-206 and 223-225: the loop ends and the plugins are stopped
run_stop ==
    /\ run_state = "loop"
    /\ event_queue # <<>>
    /\ LET got == queue_get(event_queue)
           end == stop_plugins(DOMAIN plugins)
       IN /\ stopped \/ got.event.type = "_EMPTY"
          /\ Take(got)
          /\ tasks' = not_done(tasks)
          /\ restart' = IF restart_requested(got.event) THEN TRUE ELSE restart
          /\ stopped' = TRUE
          /\ outcome' = Append(outcome, Note("stop", got.event.data, {}, NoAnswers))
          /\ run_state' = end.state
          /\ torn_down' = torn_down \cup end.torn_down
    /\ UNCHANGED <<handlers, arrived, start_vars, pre_vars, course_vars, reply_vars>>

\* lines 198-211: a keep-alive is skipped
run_heartbeat ==
    /\ run_state = "loop"
    /\ event_queue # <<>>
    /\ LET got == queue_get(event_queue)
       IN /\ ~(stopped \/ got.event.type = "_EMPTY")
          /\ got.event.type = "ZULIP"
          /\ is_heartbeat(got.event)
          /\ Take(got)
          /\ tasks' = not_done(tasks)
          /\ outcome' = Append(outcome, Note("heartbeat", got.event.data, {}, NoAnswers))
    /\ UNCHANGED <<run_state, stopped, restart, handlers, torn_down, arrived,
                   start_vars, pre_vars, course_vars, reply_vars>>

\* a run() without the try of lines 212-216: the exception ends run()
run_preprocess_raises_fatal ==
    /\ run_state = "loop"
    /\ event_queue # <<>>
    /\ LET got == queue_get(event_queue)
       IN /\ ~(stopped \/ got.event.type = "_EMPTY")
          /\ got.event.type = "ZULIP"
          /\ ~is_heartbeat(got.event)
          /\ zulip_event_preprocess(got.event.data).raised
          /\ event_queue' = got.queue
          /\ dequeued' = Append(dequeued, got.event)
          /\ tasks' = not_done(tasks)
          /\ outcome' = Append(outcome,
                [kind |-> "dropped", data |-> got.event.data, asked |-> {},
                 answers |-> [p \in {} |-> FALSE]])
          /\ run_state' = "KeyError"
    /\ UNCHANGED <<stopped, restart, handlers, torn_down, arrived, start_vars, pre_vars, course_vars, reply_vars>>

\* lines 198-216: zulip_event_preprocess raises, the event is dropped
run_preprocess_raises ==
    /\ run_state = "loop"
    /\ event_queue # <<>>
    /\ LET got == queue_get(event_queue)
       IN /\ ~(stopped \/ got.event.type = "_EMPTY")
          /\ got.event.type = "ZULIP"
          /\ ~is_heartbeat(got.event)
          /\ zulip_event_preprocess(got.event.data).raised
          /\ Take(got)
          /\ tasks' = not_done(tasks)
          /\ outcome' = Append(outcome, Note("dropped", got.event.data, {}, NoAnswers))
    /\ UNCHANGED <<run_state, stopped, restart, handlers, torn_down, arrived,
                   start_vars, pre_vars, course_vars, reply_vars>>

\* lines 198-221: the event is preprocessed, every plugin is asked whether it
\* is responsible (is_responsible is the plugin's: any answer), and a task is
\* created for each that is
run_dispatch ==
    /\ run_state = "loop"
    /\ event_queue # <<>>
    /\ LET got == queue_get(event_queue)
           preprocessed == zulip_event_preprocess(got.event.data)
       IN /\ ~(stopped \/ got.event.type = "_EMPTY")
          /\ got.event.type = "ZULIP"
          /\ ~is_heartbeat(got.event)
          /\ ~preprocessed.raised
          /\ Take(got)
          /\ \E answers \in [DOMAIN plugins -> BOOLEAN] :
                LET new == create_tasks(to_schedule(answers), Len(dequeued) + 1)
                IN /\ handlers' = handlers \o new
                   /\ tasks' = not_done(tasks)
                                 \cup ((Len(handlers) + 1)..(Len(handlers) + Len(new)))
                   /\ outcome' = Append(outcome,
                         Note("dispatched", preprocessed.event, DOMAIN plugins, answers))
    /\ UNCHANGED <<run_state, stopped, restart, torn_down, arrived, start_vars, pre_vars, course_vars, reply_vars>>

\* lines 198-209: an event of another type is not handled
run_other_type ==
    /\ run_state = "loop"
    /\ event_queue # <<>>
    /\ LET got == queue_get(event_queue)
       IN /\ ~(stopped \/ got.event.type = "_EMPTY")
          /\ got.event.type # "ZULIP"
          /\ Take(got)
          /\ tasks' = not_done(tasks)
          /\ outcome' = Append(outcome, Note("ignored", got.event.data, {}, NoAnswers))
    /\ UNCHANGED <<run_state, stopped, restart, handlers, torn_down, arrived,
                   start_vars, pre_vars, course_vars, reply_vars>>

\* one iteration of the loop of run()
run == run_stop \/ run_heartbeat \/ run_preprocess_raises \/ run_dispatch \/ run_other_type

\* a handler whose exception reaches run(): the loop ends with it
handle_event_fatal ==
    /\ \E t \in 1..Len(handlers) :
          /\ handlers[t].state = "pending"
          /\ \E end \in {"done", "raised"} :
                /\ handlers' = [handlers EXCEPT ![t].state = end]
                /\ run_state' = IF end = "raised" /\ run_state = "loop"
                                THEN "Exception" ELSE run_state
    /\ UNCHANGED <<stopped, restart, event_queue, arrived, dequeued, outcome,
                   tasks, torn_down, start_vars, pre_vars, course_vars, reply_vars>>

\* line 221: a handler task runs plugin.handle_event to its end, which is a
\* return or an exception nobody catches
handle_event ==
    /\ \E t \in 1..Len(handlers) :
          /\ handlers[t].state = "pending"
          /\ \E end \in {"done", "raised"} :
                handlers' = [handlers EXCEPT ![t].state = end]
    /\ UNCHANGED <<run_state, stopped, restart, event_queue, arrived, dequeued, outcome,
                   tasks, torn_down, start_vars, pre_vars, course_vars, reply_vars>>

\* the plugins a run starts with: what a successful startPlugins leaves in
\* self.plugins
RunPlugins ==
    {NoPlugins, [n \in {"a"} |-> 1], [n \in {"a", "b"} |-> IF n = "a" THEN 1 ELSE 2]}

\* the state in which run() enters its loop (lines 113-114, 144, 193-195)
Init ==
    /\ plugin_classes = <<>>
    /\ start_state = "done"
    /\ instantiated = <<>>
    /\ plugins \in RunPlugins
    /\ run_state = "loop"
    /\ stopped = FALSE
    /\ restart = FALSE
    /\ event_queue = <<>>
    /\ arrived = <<>>
    /\ dequeued = <<>>
    /\ outcome = <<>>
    /\ tasks = {}
    /\ handlers = <<>>
    /\ torn_down = {}
    /\ PreIdle
    /\ CourseIdle
    /\ ReplyIdle

Next == event_listener \/ plugin_loopback \/ run \/ handle_event

Spec == Init /\ [][Next]_vars

\* the event loop runs every task that is ready: the loop of run(), ready
\* whenever the queue holds an event, gets its turn
SpecFair == Spec /\ WF_vars(run)

-----------------------------------------------------------------------------
(* Claims about run *)

Exited == run_state \in {"returned", "AttributeError"}
IsChat(event) == event.type = "ZULIP"
IsHeartbeat(event) == IsChat(event) /\ event.data.type = "heartbeat"
\* a chat event that is no keep-alive and that preprocessing accepts
IsGood(event) ==
    /\ IsChat(event)
    /\ event.data.type # "heartbeat"
    /\ ~zulip_event_preprocess(event.data).raised
IsBad(event) ==
    /\ IsChat(event)
    /\ event.data.type # "heartbeat"
    /\ zulip_event_preprocess(event.data).raised
HandlersOf(i) == {t \in 1..Len(handlers) : handlers[t].event = i}
HandlersFor(i, p) == {t \in HandlersOf(i) : handlers[t].plugin = p}

\* C1: a chat event whose data type is heartbeat never reaches a plugin: no
\* plugin is asked whether it is responsible for it and no handler task is
\* created for it, whatever the plugins are.
C1_HeartbeatNeverReachesPlugin ==
    \A i \in 1..Len(dequeued) :
        IsHeartbeat(dequeued[i]) =>
            /\ outcome[i].asked = {}
            /\ HandlersOf(i) = {}

\* C1 witness: with two plugins started, a heartbeat was taken from the queue
\* and the loop went on
C1_Witness ==
    /\ DOMAIN plugins = {"a", "b"}
    /\ run_state = "loop"
    /\ \E i \in 1..Len(dequeued) : IsHeartbeat(dequeued[i])

\* C2: for every chat event that is no heartbeat and whose preprocessing
\* succeeds, every plugin of the live-plugin mapping is asked, exactly one
\* handler task is created for each plugin that answered true and none for any
\* other, and the loop takes the next event whether or not handlers are done.
C2_TaskPerResponsiblePlugin ==
    /\ \A i \in 1..Len(dequeued) :
          IsGood(dequeued[i]) =>
              /\ outcome[i].kind = "dispatched"
              /\ outcome[i].asked = DOMAIN plugins
              /\ \A p \in DOMAIN plugins :
                    Cardinality(HandlersFor(i, p)) = IF outcome[i].answers[p] THEN 1 ELSE 0
    /\ \A t \in 1..Len(handlers) : handlers[t].plugin \in DOMAIN plugins
    /\ (run_state = "loop" /\ event_queue # <<>>) => ENABLED run

\* C2 witness: of two plugins one answered true and one false, and the loop
\* took the next event while the handler of the first was still running
C2_Witness ==
    /\ DOMAIN plugins = {"a", "b"}
    /\ Len(dequeued) >= 2
    /\ outcome[1].kind = "dispatched"
    /\ outcome[1].answers["a"] /\ ~outcome[1].answers["b"]
    /\ outcome[2].kind = "dispatched"
    /\ \E t \in HandlersOf(1) : handlers[t].state = "pending" /\ t \in tasks

Last(seq) == seq[Len(seq)]

\* C3: started with stopped and restart false, the loop runs until it takes a
\* sentinel (_EMPTY) event from the queue (stopped is not set before); at the
\* exit stopped is true and restart is true exactly if the event that ended
\* the loop is an _EMPTY event whose sender is "restart".
C3_ExitOnSentinel ==
    /\ run_state = "loop" =>
          /\ ~stopped /\ ~restart
          /\ \A i \in 1..Len(dequeued) : dequeued[i].type # "_EMPTY"
    /\ Exited =>
          /\ stopped
          /\ dequeued # <<>>
          /\ Last(dequeued).type = "_EMPTY"
          /\ \A i \in 1..(Len(dequeued) - 1) : dequeued[i].type # "_EMPTY"
          /\ restart <=> (Last(dequeued).type = "_EMPTY" /\ Last(dequeued).sender = "restart")

\* C3 witness: the loop ended on a sentinel that is no restart request, after
\* an event of another type sent by "restart"
C3_Witness ==
    /\ Exited
    /\ Len(dequeued) = 2
    /\ dequeued[1] = Event("restart", "OTHER", NoData)
    /\ dequeued[2] = Event("stop", "_EMPTY", NoData)
    /\ ~restart

\* C7: when the loop has ended, every entry of the live-plugin mapping has been
\* torn down by the time run() is over.
C7_AllTornDownAtExit == Exited => torn_down = DOMAIN plugins

\* C8: a chat event for which zulip_event_preprocess raises is dropped (no plugin
\* is asked, no task created), the loop neither ends nor sets stopped because
\* of it, and the events taken after it are dispatched as usual.
C8_PreprocessErrorDropsEvent ==
    \A i \in 1..Len(dequeued) :
        IsBad(dequeued[i]) =>
            /\ outcome[i].kind = "dropped"
            /\ outcome[i].asked = {}
            /\ HandlersOf(i) = {}
            /\ i = Len(dequeued) => (run_state = "loop" /\ ~stopped)
            /\ \A j \in (i + 1)..Len(dequeued) :
                  /\ IsGood(dequeued[j]) =>
                        /\ outcome[j].kind = "dispatched"
                        /\ outcome[j].asked = DOMAIN plugins
                        /\ \A p \in DOMAIN plugins :
                              outcome[j].answers[p] <=> HandlersFor(j, p) # {}
                  /\ dequeued[j].type = "_EMPTY" => outcome[j].kind = "stop"

\* C8 witness: a message event without its message was dropped, and the
\* command after it got its handler task
C8_Witness ==
    /\ Len(dequeued) = 2
    /\ dequeued[1].data = PlainEvent("message")
    /\ outcome[1].kind = "dropped"
    /\ outcome[2].kind = "dispatched"
    /\ HandlersFor(2, "a") # {}
    /\ run_state = "loop"

\* C9: what the loop has taken from the queue is a prefix of what was put on
\* it, in the order of arrival, no event lost or taken twice, whoever put it;
\* so handler tasks are created in the order their events arrived.
C9_QueueKeepsArrivalOrder ==
    /\ Len(dequeued) <= Len(arrived)
    /\ \A i \in 1..Len(dequeued) : dequeued[i] = arrived[i]
    /\ arrived = dequeued \o event_queue
    /\ \A s, t \in 1..Len(handlers) : s < t => handlers[s].event <= handlers[t].event

\* C9 witness: two different events, one of the listener and one of a plugin,
\* waited in the queue together and the first one has been taken
C9_Witness ==
    /\ Len(arrived) = 2
    /\ Len(dequeued) = 1
    /\ dequeued[1].sender = "_root"
    /\ event_queue = <<Event("restart", "_EMPTY", NoData)>>
    /\ HandlersOf(1) # {}

-----------------------------------------------------------------------------
(* Specification SpecPre: zulip_event_preprocess on any event *)

\* message contents: any command line, with and without the mention before it
Contents == StringsUpTo(MaxLen) \cup {ping \o s : s \in StringsUpTo(MaxLen)}

\* the events handed to zulip_event_preprocess: messages of the bot or of
\* alice, private (to the bot alone or to carol too) or in a stream, events
\* that are no messages, and a message event without its "message"
PreEvents ==
    {MessageEvent(Message(sender, "private", content, recipients)) :
        sender \in {BotId, "alice"}, content \in Contents,
        recipients \in {{BotId, "alice"}, {BotId, "alice", "carol"}}}
    \cup {MessageEvent(Message(sender, "stream", content, {})) :
        sender \in {BotId, "alice"}, content \in Contents}
    \cup {PlainEvent("reaction"), PlainEvent("heartbeat"), PlainEvent("message")}

InitPre ==
    /\ plugin_classes = <<>>
    /\ start_state = "done"
    /\ instantiated = <<>>
    /\ plugins = NoPlugins
    /\ RunIdle
    /\ pre_state = "called"
    /\ pre_event \in PreEvents
    /\ pre_result = <<>>
    /\ CourseIdle
    /\ ReplyIdle

\* line 213: zulip_event_preprocess is applied to the event
preprocess ==
    /\ pre_state = "called"
    /\ pre_result' = <<zulip_event_preprocess(pre_event)>>
    /\ pre_state' = "once"
    /\ UNCHANGED <<pre_event, start_vars, run_vars, course_vars, reply_vars>>

\* zulip_event_preprocess is applied to the event it returned
preprocess_again ==
    /\ pre_state = "once"
    /\ ~pre_result[1].raised
    /\ pre_result' = Append(pre_result, zulip_event_preprocess(pre_result[1].event))
    /\ pre_state' = "twice"
    /\ UNCHANGED <<pre_event, start_vars, run_vars, course_vars, reply_vars>>

NextPre == preprocess \/ preprocess_again

SpecPre == InitPre /\ [][NextPre]_vars

-----------------------------------------------------------------------------
(* Claims about zulip_event_preprocess *)

AllWhitespace(s) == \A i \in 1..Len(s) : s[i] \in Whitespace
NoWhitespace(s) == \A i \in 1..Len(s) : s[i] \notin Whitespace

\* the content begins with the mention string, and what follows the mention
BeginsWithMention(content) ==
    /\ Len(content) >= Len(ping)
    /\ \A i \in 1..Len(ping) : content[i] = ping[i]
AfterMention(content) ==
    [i \in 1..(Len(content) - Len(ping)) |-> content[i + Len(ping)]]

\* name is the first whitespace-delimited token of line and rest is what
\* follows the token and the whitespace that ends it
FirstTokenAndRest(line, name, rest) ==
    \E i \in 0..Len(line) : \E j \in (i + 1)..Len(line) :
        /\ AllWhitespace(SubSeq(line, 1, i))
        /\ name = SubSeq(line, i + 1, j)
        /\ NoWhitespace(name)
        /\ \/ j = Len(line) /\ rest = <<>>
           \/ \E k \in (j + 1)..Len(line) :
                 /\ AllWhitespace(SubSeq(line, j + 1, k))
                 /\ rest = SubSeq(line, k + 1, Len(line))
                 /\ rest = <<>> \/ rest[1] \notin Whitespace

IsMessage(event) == event.type = "message" /\ event.message # <<>>

\* C10: for a message not sent by the bot, not private, whose content starts
\* with the mention string, zulip_event_preprocess attaches as command_name
\* the first whitespace-delimited token after the mention and as command what
\* follows that token; the rest of the event stays as it was.
C10_MentionCommandSplit ==
    (pre_state # "called" /\ IsMessage(pre_event)) =>
        LET message == pre_event.message[1]
            line == AfterMention(message.content)
        IN (/\ message.sender_id # BotId
            /\ message.type # "private"
            /\ BeginsWithMention(message.content)
            /\ ~AllWhitespace(line)) =>
               /\ ~pre_result[1].raised
               /\ pre_result[1].event.type = "message"
               /\ LET got == pre_result[1].event.message[1]
                  IN /\ FirstTokenAndRest(line, got.command_name, got.command)
                     /\ got.content = message.content
                     /\ got.sender_id = message.sender_id
                     /\ got.type = message.type

\* C10 witness: "@b b b" written in a stream gives the name "b" and the
\* arguments "b"
C10_Witness ==
    /\ pre_state = "once"
    /\ pre_event = MessageEvent(Message("alice", "stream", ping \o <<" ", "b", " ", "b">>, {}))
    /\ pre_result[1].event.message[1].command_name = <<"b">>
    /\ pre_result[1].event.message[1].command = <<"b">>

\* the bot is the only recipient of the private message besides its sender
BotIsOnlyOtherRecipient(message) ==
    message.display_recipient = {message.sender_id, BotId}

\* C11: for a private message not sent by the bot, with the bot as the only
\* other recipient and a content that does not start with the mention string,
\* the whole content is the command line: command_name is its first
\* whitespace-delimited token and command the rest, nothing stripped.
C11_PrivateWholeContent ==
    (pre_state # "called" /\ IsMessage(pre_event)) =>
        LET message == pre_event.message[1]
        IN (/\ message.sender_id # BotId
            /\ message.type = "private"
            /\ BotIsOnlyOtherRecipient(message)
            /\ ~BeginsWithMention(message.content)
            /\ ~AllWhitespace(message.content)) =>
               /\ ~pre_result[1].raised
               /\ pre_result[1].event.type = "message"
               /\ LET got == pre_result[1].event.message[1]
                  IN /\ FirstTokenAndRest(message.content, got.command_name, got.command)
                     /\ got.content = message.content
                     /\ got.sender_id = message.sender_id
                     /\ got.type = message.type

\* C11 witness: "b @b" written to the bot alone gives the name "b" and the
\* arguments "@b"
C11_Witness ==
    /\ pre_state = "once"
    /\ pre_event = MessageEvent(Message("alice", "private", <<"b", " ", "@", "b">>,
                                        {BotId, "alice"}))
    /\ pre_result[1].event.message[1].command_name = <<"b">>
    /\ pre_result[1].event.message[1].command = <<"@", "b">>

\* C12: a message event whose sender is the bot itself (private or not, with
\* or without the mention) is returned as it is, no command_name or command
\* attached, and preprocessing the returned event again returns it again.
C12_OwnMessageUnmodified ==
    (pre_state # "called" /\ IsMessage(pre_event)
        /\ pre_event.message[1].sender_id = BotId) =>
        /\ pre_result[1] = Returned(pre_event)
        /\ pre_result[1].event.message[1].command_name = Absent
        /\ pre_result[1].event.message[1].command = Absent
        /\ pre_state = "twice" => pre_result[2] = Returned(pre_event)

\* C12 witness: the bot's own stream message that starts with the mention has
\* been preprocessed twice
C12_Witness ==
    /\ pre_state = "twice"
    /\ pre_event = MessageEvent(Message(BotId, "stream", ping \o <<" ", "b">>, {}))

\* C13: an event that is no message, and a message that is not private and
\* does not start with the mention string, is returned with no field added,
\* removed or altered.
C13_NonCommandUnchanged ==
    pre_state # "called" =>
        /\ pre_event.type # "message" => pre_result[1] = Returned(pre_event)
        /\ (/\ IsMessage(pre_event)
            /\ pre_event.message[1].type # "private"
            /\ ~BeginsWithMention(pre_event.message[1].content)) =>
               pre_result[1] = Returned(pre_event)

\* C13 witness: a stream message of alice that holds the mention, but not at
\* its start
C13_Witness ==
    /\ pre_state = "once"
    /\ pre_event = MessageEvent(Message("alice", "stream", <<"b", " ", "@", "b">>, {}))

Qualifies(message) ==
    /\ message.sender_id # BotId
    /\ \/ message.type # "private" /\ BeginsWithMention(message.content)
       \/ /\ message.type = "private"
          /\ ~BeginsWithMention(message.content)
          /\ BotIsOnlyOtherRecipient(message)
CommandLine(message) ==
    IF BeginsWithMention(message.content) THEN AfterMention(message.content)
    ELSE message.content

\* line is one token with nothing but whitespace around it
SingleToken(line, token) ==
    \E i \in 0..Len(line) : \E j \in (i + 1)..Len(line) :
        /\ AllWhitespace(SubSeq(line, 1, i))
        /\ token = SubSeq(line, i + 1, j)
        /\ NoWhitespace(token)
        /\ AllWhitespace(SubSeq(line, j + 1, Len(line)))

\* C15: zulip_event_preprocess raises for no well-formed event; for a
\* qualifying message whose command line is empty or whitespace only (the
\* content is the mention alone, or empty) it attaches command_name "" and
\* command "", and for a single token that token and command "".
C15_TotalOnWellFormed ==
    (pre_state # "called" /\ (pre_event.type = "message" => pre_event.message # <<>>)) =>
        /\ ~pre_result[1].raised
        /\ (IsMessage(pre_event) /\ Qualifies(pre_event.message[1])) =>
              LET line == CommandLine(pre_event.message[1])
                  got == pre_result[1].event.message[1]
              IN /\ AllWhitespace(line) =>
                    (got.command_name = <<>> /\ got.command = <<>>)
                 /\ \A token \in StringsUpTo(Len(line)) :
                       SingleToken(line, token) =>
                          (got.command_name = token /\ got.command = <<>>)

\* C15 witness: a stream message that is the mention and a tab
C15_Witness ==
    /\ pre_state = "once"
    /\ pre_event = MessageEvent(Message("alice", "stream", ping \o <<"\t">>, {}))
    /\ pre_result[1].event.message[1].command_name = <<>>
    /\ pre_result[1].event.message[1].command = <<>>

-----------------------------------------------------------------------------
(***************************************************************************)
(* The course plugin (src/src/tumcsbot/plugins/course.py), specification   *)
(* SpecCourse.  A row is a record of its columns; the column of a foreign  *)
(* key holds the key of the row it refers to.  A ZulipStream is the name   *)
(* of the stream, a composed name is the tuple of its parts.  Every        *)
(* command runs in a handler task; a task is suspended only at an await,   *)
(* so one step of a task is the code from one awaited call to the next.    *)
(***************************************************************************)

\* most course commands handled in one run
MaxCommands == 3

CourseNames == {"x", "y"}
Emojis == {"e1", "e2"}
CourseTasks == {"t1", "t2"}

\* Python's None
None == <<"None">>

\* lines 144, 269
streamgroup_name(name) == <<"streams_", name>>
\* lines 153, 282
usergroup_name(name) == <<"tutors_", name>>
\* lines 157, 290
tutors_stream_name(name) == <<name, "-Tutoren">>
\* lines 173, 308
instructor_stream_name(name) == <<name, "-Instructors">>

\* the streams add_standard_streams has created when it reaches line 561
StandardStreams(name) ==
    {<<name, "-Allgemein">>, <<name, "-Organisation">>, <<name, "-Feedback">>,
     <<name, "-Ankuendigungen">>, <<name, "-Technik">>}

\* a row of table StreamGroups
StreamGroup(id, emote) == [StreamGroupId |-> id, StreamGroupEmote |-> emote]
\* a row of table UserGroups; the group's name stands for its GroupId
UserGroup(name) == [GroupId |-> name]
\* a row of table Courses (lines 187-193, 322-328)
CourseDB(id, name, streams, tutors, tutors_stream, instructor_stream) ==
    [CourseId |-> id, CourseName |-> name, Streams |-> streams, Tutors |-> tutors,
     TutorStream |-> tutors_stream, InstructorStream |-> instructor_stream]

\* what a command ends with
DMError(text) == [outcome |-> "raised", type |-> "DMError", text |-> text]
Uncaught(type) == [outcome |-> "raised", type |-> type, text |-> <<>>]
DMResponse(text) == [outcome |-> "replied", type |-> "DMResponse", text |-> text]
Completed == [outcome |-> "returned", type |-> "None", text |-> <<>>]

\* the texts of the replies, without the quotes put around the name
already_exists(name) == DMError(<<"Course ", name, " already exists">>)
emoji_already_exists(emoji) == DMError(<<"Course with :", emoji, ": already exists">>)
went_wrong(name) ==
    DMError(<<"Something went wrong when creating the course ", name, " :botsweat:">>)
created(name) == DMResponse(<<"Course ", name, " created :bothappypad:">>)

\* lines 130-133 and 251-254 with the query finding no row
course_name_exists_never(name) == FALSE
\* lines 130-133 and 251-254: a course row of that name exists
course_name_exists(name) == \E c \in courses : c.CourseName = name

\* lines 136-139 and 256-260 with the query finding no row
emoji_exists_never(emoji) == FALSE
\* lines 136-139 and 256-260: a stream group row of that emoji exists
emoji_exists(emoji) == \E g \in streamgroups : g.StreamGroupEmote = emoji

\* the options of a command: option name -> value (TRUE for a flag)
NoOpts == [k \in {} |-> TRUE]
Flags(S) == [k \in S |-> TRUE]
Has(opts, k) == k \in DOMAIN opts

\* a handler task: the command, where it is, its arguments, the course row it
\* was given or is building, its result, and whether it ran alone so far
Task(cmd, pc, name, emoji, opts, course, result) ==
    [cmd |-> cmd, pc |-> pc, name |-> name, emoji |-> emoji, opts |-> opts,
     course |-> course, result |-> result, solo |-> TRUE]
IdleTask == Task("none", "idle", None, None, NoOpts, None, None)
Running(t) == course_tasks[t].pc \notin {"idle", "done"}
Free(t) == ~Running(t)
\* a command is handed to the first task that is free
Vacant(t) == Free(t) /\ (t = "t2" => Running("t1"))

\* task t starts as "task": the tasks in flight no longer run alone, the
\* tasks that have ended are gone
Begin(t, task) ==
    [u \in CourseTasks |->
        IF u = t THEN [task EXCEPT !.solo = \A v \in CourseTasks \ {t} : Free(v)]
        ELSE IF Running(u) THEN [course_tasks[u] EXCEPT !.solo = FALSE]
        ELSE IdleTask]

\* task t goes on as "task": the tasks that have ended are gone
Continue(t, task) ==
    [u \in CourseTasks |->
        IF u = t THEN task ELSE IF Running(u) THEN course_tasks[u] ELSE IdleTask]

Ended(task, result) == [task EXCEPT !.pc = "done", !.result = result]

\* the tables, the chat server and one task, as the code of that task sees
\* them; "refused" says whether the database answers the commits of this step
\* with sqlalchemy.exc.IntegrityError
World(task) ==
    [courses |-> courses, streamgroups |-> streamgroups, usergroups |-> usergroups,
     chat_streams |-> chat_streams, next_course_id |-> next_course_id, task |-> task,
     refused |-> FALSE]
\* the same with the database refusing the commits of this step
Refusing(w) == [w EXCEPT !.refused = TRUE]
\* the task is suspended at pc; the emoji is not looked at after the first step
goto(w, pc) == [w EXCEPT !.task.pc = pc, !.task.emoji = None]
ends(w, result) == [w EXCEPT !.task = Ended(@, result)]
ended(w) == w.task.pc = "done"

\* Streamgroup._create_and_get_group (lines 145, 270): a new row, committed;
\* an id in use is a validation error
create_streamgroup(w, id, emote) ==
    IF \E g \in w.streamgroups : g.StreamGroupId = id
    THEN ends(w, went_wrong(w.task.name))
    ELSE [w EXCEPT !.streamgroups = @ \cup {StreamGroup(id, emote)}]

\* Usergroup.create_and_get_group (lines 154, 283): a new row, committed;
\* a name in use is a validation error
create_usergroup(w, name) ==
    IF UserGroup(name) \in w.usergroups
    THEN ends(w, went_wrong(w.task.name))
    ELSE [w EXCEPT !.usergroups = @ \cup {UserGroup(name)}]

\* Streams.create (lines 159-166, 175-182, 292-299, 310-317): a new stream on
\* the chat server; a name in use is a validation error
create_stream(w, name) ==
    IF name \in w.chat_streams
    THEN ends(w, went_wrong(w.task.name))
    ELSE [w EXCEPT !.chat_streams = @ \cup {name}]

\* session.add(course); session.commit() (lines 195-196, 330-331) and the
\* handler of line 198 / 339: CourseName is unique (line 46), Streams and
\* Tutors refer to existing rows (lines 49-57); the row gets the next CourseId
commit_course(w) ==
    LET course == w.task.course IN
    IF \/ w.refused
       \/ \E c \in w.courses : c.CourseName = course.CourseName
       \/ \A g \in w.streamgroups : g.StreamGroupId # course.Streams
       \/ UserGroup(course.Tutors) \notin w.usergroups
    THEN ends(w, went_wrong(w.task.name))
    ELSE [w EXCEPT !.courses = @ \cup {[course EXCEPT !.CourseId = w.next_course_id]},
                   !.next_course_id = @ + 1,
                   !.task.course.CourseId = w.next_course_id]

\* the task's step has led to w
Step(t, w) ==
    /\ courses' = w.courses
    /\ streamgroups' = w.streamgroups
    /\ usergroups' = w.usergroups
    /\ chat_streams' = w.chat_streams
    /\ next_course_id' = w.next_course_id
    /\ course_tasks' = Continue(t, w.task)
    /\ UNCHANGED commands
    /\ UNCHANGED <<start_vars, run_vars, pre_vars, reply_vars>>

\* the first step of a task has led to w
Start(t, w) ==
    /\ courses' = w.courses
    /\ streamgroups' = w.streamgroups
    /\ usergroups' = w.usergroups
    /\ chat_streams' = w.chat_streams
    /\ next_course_id' = w.next_course_id
    /\ course_tasks' = Begin(t, w.task)
    /\ commands' = commands + 1
    /\ UNCHANGED <<start_vars, run_vars, pre_vars, reply_vars>>

\* the values an option of create or update can be given: an existing stream
\* group (its id), an existing user group, an existing stream
OptValues(k) ==
    CASE k = "s" -> {g.StreamGroupId : g \in streamgroups}
      [] k = "t" -> {g.GroupId : g \in usergroups}
      [] k = "tuts" -> chat_streams \cap {tutors_stream_name(n) : n \in CourseNames}
      [] k = "ins" -> chat_streams \cap {instructor_stream_name(n) : n \in CourseNames}
Options(Keys) ==
    UNION {{opts \in [K -> UNION {OptValues(k) : k \in K}] :
               \A k \in K : opts[k] \in OptValues(k)} : K \in Keys}
CreateEmptyOpts == {Flags(S) : S \in SUBSET {"i", "s"}}
CreateOpts == Options({{}, {"s"}, {"tuts"}, {"tuts", "ins"}})

\* Course.create_empty, lines 127-154: up to the first await
create_empty_start(w) ==
    LET name == w.task.name
        emoji == w.task.emoji
    IN
    IF course_name_exists(name) THEN ends(w, already_exists(name))
    ELSE IF emoji_exists(emoji) THEN ends(w, emoji_already_exists(emoji))
    ELSE LET w1 == create_streamgroup(w, streamgroup_name(name), emoji)
             w2 == create_usergroup(w1, usergroup_name(name))
         IN
         IF ended(w1) THEN w1
         ELSE IF Has(w.task.opts, "s") THEN
             goto([w1 EXCEPT !.task.course.Streams = streamgroup_name(name)], "standard")
         ELSE IF ended(w2) THEN w2
         ELSE goto([w2 EXCEPT !.task.course.Streams = streamgroup_name(name),
                              !.task.course.Tutors = usergroup_name(name)],
                   "tutor_stream")

\* lines 330-343 once the row is committed: create goes on to subscribe the
\* tutors, create_empty (line 202) replies
committed(w) ==
    IF ended(w) THEN w
    ELSE IF w.task.cmd = "create" THEN goto(w, "subscribe")
    ELSE ends(w, created(w.task.name))

\* Course.create, lines 244-331: up to the first await
create_start(w) ==
    LET name == w.task.name
        emoji == w.task.emoji
        opts == w.task.opts
    IN
    IF course_name_exists(name) THEN ends(w, already_exists(name))
    ELSE IF emoji_exists(emoji) THEN ends(w, emoji_already_exists(emoji))
    ELSE LET w1 == IF Has(opts, "s")
                   THEN [w EXCEPT !.task.course.Streams = opts["s"]]
                   ELSE [create_streamgroup(w, streamgroup_name(name), emoji)
                            EXCEPT !.task.course.Streams = streamgroup_name(name)]
             w2 == IF Has(opts, "t")
                   THEN [w1 EXCEPT !.task.course.Tutors = opts["t"]]
                   ELSE [create_usergroup(w1, usergroup_name(name))
                            EXCEPT !.task.course.Tutors = usergroup_name(name)]
             w3 == [w2 EXCEPT !.task.course.TutorStream = opts["tuts"]]
             w4 == [w3 EXCEPT !.task.course.InstructorStream = opts["ins"]]
         IN
         IF ended(w1) THEN w1
         ELSE IF Has(opts, "s") THEN goto(w1, "standard")
         ELSE IF ended(w2) THEN w2
         ELSE IF ~Has(opts, "tuts") THEN goto(w2, "tutor_stream")
         ELSE IF ~Has(opts, "ins") THEN goto(w3, "instructor_stream")
         ELSE committed(commit_course(w4))

\* Course.add_standard_streams, lines 496-561: five streams are created, then
\* line 561 awaits a str, which raises TypeError
add_standard_streams(w) ==
    IF StandardStreams(w.task.name) \cap w.chat_streams # {}
    THEN ends(w, went_wrong(w.task.name))
    ELSE ends([w EXCEPT !.chat_streams = @ \cup StandardStreams(w.task.name)],
              Uncaught("TypeError"))

\* lines 156-168 and 289-301: the stream of the tutors is created
tutor_stream(w) ==
    LET name == w.task.name
        opts == w.task.opts
        w1 == create_stream(w, tutors_stream_name(name))
        w2 == [w1 EXCEPT !.task.course.TutorStream = tutors_stream_name(name)]
    IN
    IF ended(w1) THEN w1
    ELSE IF w.task.cmd = "create_empty" THEN
        IF Has(opts, "i") THEN goto(w2, "instructor_stream") ELSE goto(w2, "commit")
    ELSE IF Has(opts, "ins") THEN
        goto([w2 EXCEPT !.task.course.InstructorStream = opts["ins"]], "commit")
    ELSE goto(w2, "instructor_stream")

\* lines 172-184 and 307-319: the stream of the instructors is created, and
\* the course is given ZulipStream(tutors_stream_name), a name that create
\* has not bound when option tuts was given
instructor_stream(w) ==
    LET name == w.task.name
        w1 == create_stream(w, instructor_stream_name(name))
    IN
    IF ended(w1) THEN w1
    ELSE IF w.task.cmd = "create" /\ Has(w.task.opts, "tuts")
    THEN ends(w1, Uncaught("UnboundLocalError"))
    ELSE goto([w1 EXCEPT !.task.course.InstructorStream = tutors_stream_name(name)],
              "commit")

NewCourse(name) == CourseDB(None, name, None, None, None, None)

\* a task starts handling "course create_empty <name> <emoji> [-i] [-s]"
create_empty(t) ==
    /\ Vacant(t)
    /\ commands < MaxCommands
    /\ \E name \in CourseNames, emoji \in Emojis, opts \in CreateEmptyOpts :
          Start(t, create_empty_start(World(
              Task("create_empty", "start", name, emoji, opts, NewCourse(name), None))))

\* a task starts handling "course create <name> <emoji> [-s ..] [-t ..] .."
create(t) ==
    /\ Vacant(t)
    /\ commands < MaxCommands
    /\ \E name \in CourseNames, emoji \in Emojis, opts \in CreateOpts :
          Start(t, create_start(World(
              Task("create", "start", name, emoji, opts, NewCourse(name), None))))

\* a create or create_empty task goes on from an await
create_continue(t) ==
    LET w == World(course_tasks[t]) IN
    /\ course_tasks[t].cmd \in {"create", "create_empty"}
    /\ \/ course_tasks[t].pc = "standard" /\ Step(t, add_standard_streams(w))
       \/ course_tasks[t].pc = "tutor_stream" /\ Step(t, tutor_stream(w))
       \/ course_tasks[t].pc = "instructor_stream" /\ Step(t, instructor_stream(w))
       \/ course_tasks[t].pc = "commit" /\ Step(t, committed(commit_course(w)))
       \/ course_tasks[t].pc = "subscribe" /\ Step(t, ends(w, created(w.task.name)))

\* ondelete="CASCADE" of Courses.Streams and Courses.Tutors (lines 49-57): the
\* course rows that refer to a deleted row go with it
on_delete_cascade(rows, column, key) == {c \in rows : c[column] # key}

\* session.query(CourseDB).filter(CourseDB.CourseId == id).delete() (line 384)
\* with no row deleted
delete_row_nothing(rows, id) == rows
\* session.query(CourseDB).filter(CourseDB.CourseId == id).delete() (line 384)
delete_row(rows, id) == {c \in rows : c.CourseId # id}

\* Streamgroup.delete (lines 391-397): the row of that id is deleted; no such
\* row is a validation error
delete_streamgroup(w, id) ==
    IF \A g \in w.streamgroups : g.StreamGroupId # id
    THEN ends(w, DMError(<<"Streamgroup.delete", id>>))
    ELSE [w EXCEPT !.streamgroups = {g \in @ : g.StreamGroupId # id},
                   !.courses = on_delete_cascade(@, "Streams", id)]

\* Usergroup.get_name_by_id and Usergroup.delete (lines 400-407): the row of
\* that id is deleted; no such row is a validation error
delete_usergroup(w, id) ==
    IF UserGroup(id) \notin w.usergroups
    THEN ends(w, DMError(<<"Usergroup.delete", id>>))
    ELSE [w EXCEPT !.usergroups = @ \ {UserGroup(id)},
                   !.courses = on_delete_cascade(@, "Tutors", id)]

\* sender.client.delete_stream(stream.id) (lines 410, 413, 700, 719): the
\* stream is gone from the chat server; None has no attribute id
delete_stream(w, stream) ==
    IF stream = None THEN ends(w, Uncaught("AttributeError"))
    ELSE [w EXCEPT !.chat_streams = @ \ {stream}]

\* the options of delete in the order lines 390-413 look at them
DeleteOrder == <<"s", "t", "tuts", "ins">>
DeleteOpts ==
    {Flags(S) : S \in {{}, {"tuts"}, {"s", "t", "tuts", "ins"}}}

\* lines 390-413: delete goes on to the next dependent asked for after the
\* i-th, or returns
delete_next(w, i) ==
    IF ended(w) THEN w
    ELSE IF \E j \in (i + 1)..Len(DeleteOrder) : Has(w.task.opts, DeleteOrder[j])
    THEN goto(w, DeleteOrder[CHOOSE j \in (i + 1)..Len(DeleteOrder) :
                     /\ Has(w.task.opts, DeleteOrder[j])
                     /\ \A k \in (i + 1)..(j - 1) : ~Has(w.task.opts, DeleteOrder[k])])
    ELSE ends(w, Completed)

\* the text of line 388, without the quotes put around the name
could_not_delete(name) == DMError(<<"Could not delete Course ", name, ".">>)

\* a delete that goes on to the dependents although the commit was refused
delete_start_goes_on(w) ==
    IF w.refused THEN delete_next(w, 0)
    ELSE delete_next([w EXCEPT !.courses = delete_row(@, w.task.course.CourseId)], 0)

\* Course.delete, lines 377-388: the course row is deleted and committed; a
\* commit the database refuses is rolled back and ends the command
delete_start(w) ==
    IF w.refused THEN ends(w, could_not_delete(w.task.course.CourseName))
    ELSE delete_next([w EXCEPT !.courses = delete_row(@, w.task.course.CourseId)], 0)

\* Course.delete, lines 390-413: one dependent is deleted
delete_dependent(w) ==
    LET course == w.task.course IN
    CASE w.task.pc = "s" -> delete_next(delete_streamgroup(w, course.Streams), 1)
      [] w.task.pc = "t" -> delete_next(delete_usergroup(w, course.Tutors), 2)
      [] w.task.pc = "tuts" -> delete_next(delete_stream(w, course.TutorStream), 3)
      [] w.task.pc = "ins" -> delete_next(delete_stream(w, course.InstructorStream), 4)

\* a task starts handling "course delete <course> [-s] [-t] [--tuts] [--ins]"
delete(t) ==
    /\ Vacant(t)
    /\ commands < MaxCommands
    /\ \E course \in courses, opts \in DeleteOpts :
          Start(t, delete_start(World(
              Task("delete", "start", course.CourseName, None, opts, course, None))))

\* a delete task goes on from an await
delete_continue(t) ==
    /\ course_tasks[t].cmd = "delete"
    /\ Running(t)
    /\ Step(t, delete_dependent(World(course_tasks[t])))

\* the columns of table StreamGroups
StreamGroupColumns == {"StreamGroupId", "StreamGroupEmote"}

\* the row the task's course object stands for, as the tables have it now
Current(w) == {c \in w.courses : c.CourseId = w.task.course.CourseId}
current(w) == CHOOSE c \in Current(w) : TRUE

\* update(CourseDB).where(CourseDB.CourseId == course.CourseId).values(..)
\* (lines 654, 674, 692, 711); the task keeps the row as it was
set_column(w, column, value) ==
    [w EXCEPT !.courses = {IF c.CourseId = w.task.course.CourseId
                           THEN [c EXCEPT ![column] = value] ELSE c : c \in @},
              !.task.course = current(w)]

already_set(what) == DMError(<<"already set", what>>)
\* the texts of lines 661, 681 and 717, and of line 698
could_not_update(what) == DMError(<<"Could not update ", what, " :botsad:">>)
could_not_update_tutorstream == DMError(<<"SCould not update Tutor-Stream :botsad:">>)

\* Course._get_streamgroup, lines 614-619: the query names StreamGroup.CouseId
get_streamgroup(w) ==
    IF "CouseId" \notin StreamGroupColumns THEN Uncaught("AttributeError")
    ELSE CHOOSE g \in w.streamgroups : g["CouseId"] = current(w).Streams

\* Course._update_streamgroup, lines 646-661
update_streamgroup(w, group) ==
    LET oldSG == get_streamgroup(w) IN
    IF oldSG \notin w.streamgroups THEN ends(w, oldSG)
    ELSE IF oldSG.StreamGroupId = group THEN ends(w, already_set("Streamgroup"))
    ELSE IF w.refused THEN ends(w, could_not_update("Streamgroup"))
    ELSE [set_column(w, "Streams", group) EXCEPT
             !.streamgroups = @ \ {oldSG},
             !.courses = on_delete_cascade(@, "Streams", oldSG.StreamGroupId)]

\* Course._get_tutorgroup, lines 622-627
get_tutorgroup(w) == CHOOSE g \in w.usergroups : g.GroupId = current(w).Tutors

\* Course._update_tutorgroup, lines 666-681
update_tutorgroup(w, group) ==
    LET oldTG == get_tutorgroup(w) IN
    IF oldTG.GroupId = group THEN ends(w, already_set("Tutorgroup"))
    ELSE IF w.refused THEN ends(w, could_not_update("Tutors"))
    ELSE [set_column(w, "Tutors", group) EXCEPT
             !.usergroups = @ \ {oldTG},
             !.courses = on_delete_cascade(@, "Tutors", oldTG.GroupId)]

\* an _update_tutorstream that deletes the stream the course had before it
\* writes the new one
update_tutorstream_deletes_first(w, stream) ==
    LET oldTS == current(w).TutorStream IN
    IF oldTS = stream THEN ends(w, already_set("Tutorstream"))
    ELSE IF w.refused
    THEN ends([w EXCEPT !.chat_streams = @ \ {oldTS}], could_not_update_tutorstream)
    ELSE [set_column(w, "TutorStream", stream) EXCEPT !.chat_streams = @ \ {oldTS}]

\* Course._update_tutorstream, lines 684-698: up to the await of line 700
update_tutorstream(w, stream) ==
    LET oldTS == current(w).TutorStream IN
    IF oldTS = stream THEN ends(w, already_set("Tutorstream"))
    ELSE IF w.refused THEN ends(w, could_not_update_tutorstream)
    ELSE set_column(w, "TutorStream", stream)

\* Course._update_instructorstream, lines 703-717: up to the await of line 719
update_instructorstream(w, stream) ==
    LET oldIS == current(w).InstructorStream IN
    IF oldIS = stream THEN ends(w, already_set("Instructorstream"))
    ELSE IF w.refused THEN ends(w, could_not_update("Instructor-Stream"))
    ELSE set_column(w, "InstructorStream", stream)

\* the course object of a task whose row another task has deleted
stale(w) == ends(w, Uncaught("ObjectDeletedError"))

\* Course.update, lines 468-470
update_ins(w) ==
    LET w1 == update_instructorstream(w, w.task.opts["ins"]) IN
    IF ended(w) THEN w
    ELSE IF ~Has(w.task.opts, "ins") THEN ends(w, Completed)
    ELSE IF Current(w) = {} THEN stale(w)
    ELSE IF ended(w1) THEN w1
    ELSE goto(w1, "ins")

\* Course.update, lines 464-470
update_tuts(w) ==
    LET w1 == update_tutorstream(w, w.task.opts["tuts"]) IN
    IF ended(w) THEN w
    ELSE IF ~Has(w.task.opts, "tuts") THEN update_ins(w)
    ELSE IF ended(w1) THEN w1
    ELSE goto(w1, "tuts")

\* Course.update, lines 460-470
update_t(w) ==
    IF ended(w) THEN w
    ELSE IF ~Has(w.task.opts, "t") THEN update_tuts(w)
    ELSE update_tuts(update_tutorgroup(w, w.task.opts["t"]))

\* Course.update, lines 454-470: up to the first await
update_start(w) ==
    IF ~Has(w.task.opts, "s") THEN update_t(w)
    ELSE update_t(update_streamgroup(w, w.task.opts["s"]))

\* lines 700 and 719: the stream the course had before is deleted
update_delete_old(w) ==
    CASE w.task.pc = "tuts" ->
            update_ins(delete_stream(w, w.task.course.TutorStream))
      [] w.task.pc = "ins" ->
            LET w1 == delete_stream(w, w.task.course.InstructorStream) IN
            IF ended(w1) THEN w1 ELSE ends(w1, Completed)

UpdateOpts == Options({{"s"}, {"t"}, {"tuts"}, {"ins"}, {"t", "tuts", "ins"}})

\* a task starts handling "course update <course> [-s ..] [-t ..] .."
course_update(t) ==
    /\ Vacant(t)
    /\ commands < MaxCommands
    /\ \E course \in courses, opts \in UpdateOpts :
          Start(t, update_start(World(
              Task("update", "start", course.CourseName, None, opts, course, None))))

\* an update task goes on from an await
update_continue(t) ==
    /\ course_tasks[t].cmd = "update"
    /\ Running(t)
    /\ Step(t, update_delete_old(World(course_tasks[t])))

\* the handler tasks are idle, the tables and the chat server empty
InitCourse ==
    /\ plugin_classes = <<>>
    /\ start_state = "done"
    /\ instantiated = <<>>
    /\ plugins = NoPlugins
    /\ RunIdle
    /\ PreIdle
    /\ ReplyIdle
    /\ courses = {}
    /\ streamgroups = {}
    /\ usergroups = {}
    /\ chat_streams = {}
    /\ next_course_id = 1
    /\ commands = 0
    /\ course_tasks = [t \in CourseTasks |-> IdleTask]

NextCourse ==
    \E t \in CourseTasks :
        \/ create_empty(t)
        \/ create(t)
        \/ create_continue(t)
        \/ delete(t)
        \/ delete_continue(t)
        \/ course_update(t)
        \/ update_continue(t)

SpecCourse == InitCourse /\ [][NextCourse]_vars

-----------------------------------------------------------------------------
(* The course plugin with a database that refuses commits and a chat client
   whose calls fail *)

\* session.commit() of line 196 or 331 raises sqlalchemy.exc.IntegrityError:
\* the handler of line 198 / 339 rolls back and raises the DMError
commit_refused(t) ==
    /\ course_tasks[t].cmd \in {"create", "create_empty"}
    /\ course_tasks[t].pc = "commit"
    /\ Step(t, committed(commit_course(Refusing(World(course_tasks[t])))))

\* session.commit() of line 385 raises sqlalchemy.exc.IntegrityError
delete_refused(t) ==
    /\ Vacant(t)
    /\ commands < MaxCommands
    /\ \E course \in courses, opts \in DeleteOpts :
          Start(t, delete_start(Refusing(World(
              Task("delete", "start", course.CourseName, None, opts, course, None)))))

\* session.commit() of line 678, 695 or 714 raises
\* sqlalchemy.exc.IntegrityError
update_refused(t) ==
    /\ Vacant(t)
    /\ commands < MaxCommands
    /\ \E course \in courses, opts \in UpdateOpts :
          Start(t, update_start(Refusing(World(
              Task("update", "start", course.CourseName, None, opts, course, None)))))

\* lines 334-341: subscribing the tutors raises a DMError after the commit of
\* line 331; the handler of line 339 rolls back and raises the DMError
subscribe_failed(t) ==
    LET w == World(course_tasks[t]) IN
    /\ course_tasks[t].cmd = "create"
    /\ course_tasks[t].pc = "subscribe"
    /\ Step(t, ends(w, went_wrong(w.task.name)))

NextCourseFault ==
    \/ NextCourse
    \/ \E t \in CourseTasks :
          \/ commit_refused(t)
          \/ delete_refused(t)
          \/ update_refused(t)
          \/ subscribe_failed(t)

SpecCourseFault == InitCourse /\ [][NextCourseFault]_vars

-----------------------------------------------------------------------------
(* Claims about the course plugin *)

\* task t is handed a command in this step
Started(t) ==
    /\ course_tasks[t].pc \in {"idle", "done"}
    /\ course_tasks'[t].pc # "idle"
    /\ commands' = commands + 1
TablesUnchanged == UNCHANGED <<courses, streamgroups, usergroups>>
HasEnded(t, cmds) == course_tasks[t].pc = "done" /\ course_tasks[t].cmd \in cmds
NameTaken(name) == \E c \in courses : c.CourseName = name

\* C16: create or create_empty with the name of an existing course row ends
\* with the error "Course <name> already exists"; the course, stream group and
\* user group rows are the same before and after, and no stream is created.
C16_ExistingNameRejected ==
    [][\A t \in CourseTasks :
          (/\ Started(t)
           /\ course_tasks'[t].cmd \in {"create", "create_empty"}
           /\ NameTaken(course_tasks'[t].name))
          => /\ course_tasks'[t].pc = "done"
             /\ course_tasks'[t].result =
                   DMError(<<"Course ", course_tasks'[t].name, " already exists">>)
             /\ TablesUnchanged
             /\ chat_streams' = chat_streams]_vars

\* C16 witness: create with the name of a course that exists has been rejected
C16_Witness ==
    \E t \in CourseTasks :
        /\ HasEnded(t, {"create"})
        /\ NameTaken(course_tasks[t].name)
        /\ course_tasks[t].result = already_exists(course_tasks[t].name)

AllFour == {"s", "t", "tuts", "ins"}
StreamGroupIds == {g.StreamGroupId : g \in streamgroups}

\* C17: delete without options removes the course row and nothing else: the
\* stream group rows, the user group rows and the streams stay as they are;
\* delete with all four options, run on its own, leaves neither the course
\* row nor its stream group, its tutor group, its tutor stream or its
\* instructor stream.
C17_DeleteDependents ==
    /\ [][\A t \in CourseTasks :
             (/\ Started(t)
              /\ course_tasks'[t].cmd = "delete"
              /\ course_tasks'[t].opts = NoOpts)
             => /\ course_tasks'[t].course \in courses
                /\ courses' = courses \ {course_tasks'[t].course}
                /\ UNCHANGED <<streamgroups, usergroups, chat_streams>>]_vars
    /\ [](\A t \in CourseTasks :
             (/\ HasEnded(t, {"delete"})
              /\ course_tasks[t].solo
              /\ DOMAIN course_tasks[t].opts = AllFour)
             => LET course == course_tasks[t].course IN
                /\ \A c \in courses : c.CourseId # course.CourseId
                /\ course.Streams \notin StreamGroupIds
                /\ UserGroup(course.Tutors) \notin usergroups
                /\ course.TutorStream \notin chat_streams
                /\ course.InstructorStream \notin chat_streams)

\* C17 witness: a delete with all four options has returned, for a course that
\* had an instructor stream
C17_Witness ==
    \E t \in CourseTasks :
        /\ HasEnded(t, {"delete"})
        /\ course_tasks[t].solo
        /\ DOMAIN course_tasks[t].opts = AllFour
        /\ course_tasks[t].course.InstructorStream # None
        /\ course_tasks[t].result = Completed

\* C18: update with option s naming the stream group the course has ends
\* with the no-op error and changes nothing; naming another existing stream
\* group it succeeds, the course row then refers to that group and the row of
\* the group it had before is gone.
C18_UpdateStreamgroup ==
    [][\A t \in CourseTasks :
          (/\ Started(t)
           /\ course_tasks'[t].cmd = "update"
           /\ DOMAIN course_tasks'[t].opts = {"s"})
          => LET course == CHOOSE c \in courses : c.CourseName = course_tasks'[t].name
                 group == course_tasks'[t].opts["s"]
             IN
             IF group = course.Streams
             THEN /\ course_tasks'[t].result.type = "DMError"
                  /\ TablesUnchanged
                  /\ chat_streams' = chat_streams
             ELSE /\ course_tasks'[t].result = Completed
                  /\ [course EXCEPT !.Streams = group] \in courses'
                  /\ \A g \in streamgroups' : g.StreamGroupId # course.Streams]_vars

\* the column of the course row an option of update stands for
ColumnOf(k) ==
    CASE k = "s" -> "Streams"
      [] k = "t" -> "Tutors"
      [] k = "tuts" -> "TutorStream"
      [] k = "ins" -> "InstructorStream"

\* task t is handed an update with the one option k, whose value is the value
\* the course has
NoOpUpdate(t, k) ==
    /\ Started(t)
    /\ course_tasks'[t].cmd = "update"
    /\ DOMAIN course_tasks'[t].opts = {k}
    /\ \E c \in courses :
          /\ c.CourseName = course_tasks'[t].name
          /\ c[ColumnOf(k)] = course_tasks'[t].opts[k]

\* C19: an update of the stream group, the tutor group, the tutor stream or
\* the instructor stream to the value the course has ends with a DMError, and
\* no row and no stream is changed or deleted.
C19_NoOpRejected ==
    [][\A t \in CourseTasks : \A k \in AllFour :
          NoOpUpdate(t, k)
          => /\ course_tasks'[t].pc = "done"
             /\ course_tasks'[t].result.type = "DMError"
             /\ TablesUnchanged
             /\ chat_streams' = chat_streams]_vars

\* C20: whatever create, create_empty, delete and update commands have run,
\* one after another or interleaved at their awaits, no two course rows have
\* the same name and no two stream group rows have the same emoji.
C20_UniqueNamesAndEmojis ==
    /\ \A c, d \in courses : c.CourseName = d.CourseName => c = d
    /\ \A g, h \in streamgroups : g.StreamGroupEmote = h.StreamGroupEmote => g = h

\* C20 witness: two courses and two stream groups are there, the second
\* created by a task that ran while another was in flight
C20_Witness ==
    /\ Cardinality(courses) = 2
    /\ Cardinality(streamgroups) = 2
    /\ \E t \in CourseTasks :
          /\ HasEnded(t, {"create", "create_empty"})
          /\ ~course_tasks[t].solo
          /\ course_tasks[t].result = created(course_tasks[t].name)

-----------------------------------------------------------------------------
(* Response.build_message (src/src/tumcsbot/lib.py) *)

\* an optional argument: left out (None), or given
NotGiven == <<>>
Given(x) == <<x>>

\* lib.py lines 368-375: new_private_message
new_private_message(to, content) ==
    <<"MESSAGE", [type |-> "private", to |-> to, content |-> content]>>

\* lib.py lines 392-400: new_stream_message
new_stream_message(stream, subject, content) ==
    <<"MESSAGE", [type |-> "stream", to |-> stream, subject |-> subject,
                  content |-> content]>>

\* a build_message that answers with a stream message whatever the type
build_message_always_stream(message, response, msg_type, to, subject) ==
    IF msg_type = NotGiven /\ "type" \notin DOMAIN message THEN Uncaught("KeyError")
    ELSE
    LET msg_type1 == IF msg_type = NotGiven THEN message["type"] ELSE msg_type[1]
        private == msg_type1 = "private"
        to_key == IF private THEN "sender_email" ELSE "stream_id"
        to1 == IF to = NotGiven THEN message[to_key] ELSE to[1]
        subject1 == IF subject = NotGiven
                    THEN (IF ~private THEN message["subject"] ELSE "")
                    ELSE subject[1]
    IN
    IF to = NotGiven /\ to_key \notin DOMAIN message THEN Uncaught("KeyError")
    ELSE IF subject = NotGiven /\ ~private /\ "subject" \notin DOMAIN message
    THEN Uncaught("KeyError")
    ELSE new_stream_message(to1, subject1, response)

\* lib.py lines 225-266: Response.build_message; message[key] of a key the
\* dictionary lacks raises KeyError
build_message(message, response, msg_type, to, subject) ==
    IF msg_type = NotGiven /\ "type" \notin DOMAIN message THEN Uncaught("KeyError")
    ELSE
    LET msg_type1 == IF msg_type = NotGiven THEN message["type"] ELSE msg_type[1]
        private == msg_type1 = "private"
        to_key == IF private THEN "sender_email" ELSE "stream_id"
        to1 == IF to = NotGiven THEN message[to_key] ELSE to[1]
        subject1 == IF subject = NotGiven
                    THEN (IF ~private THEN message["subject"] ELSE "")
                    ELSE subject[1]
    IN
    IF to = NotGiven /\ to_key \notin DOMAIN message THEN Uncaught("KeyError")
    ELSE IF subject = NotGiven /\ ~private /\ "subject" \notin DOMAIN message
    THEN Uncaught("KeyError")
    ELSE IF private THEN new_private_message(to1, response)
    ELSE new_stream_message(to1, subject1, response)

\* the messages answered here: private messages (Zulip gives them no
\* stream_id), messages of a stream and of another type, and a stream message
\* that lacks its stream_id and subject
Emails == {"alice@tum.de", "bob@tum.de"}
StreamIds == {"stream 7", "stream 8"}
Subjects == {"", "exam"}
ReplyMessages ==
    {[type |-> "private", sender_email |-> e, subject |-> ""] : e \in Emails}
    \cup {[type |-> t, sender_email |-> e, stream_id |-> i, subject |-> u] :
             t \in {"stream", "other"}, e \in Emails, i \in StreamIds, u \in Subjects}
    \cup {[type |-> "stream", sender_email |-> e] : e \in Emails}

\* the calls of build_message: with and without msg_type, to and subject
ReplyCalls ==
    [message : ReplyMessages,
     response : {"ok", "no such command"},
     msg_type : {NotGiven, Given("private"), Given("stream")},
     to : {NotGiven, Given("carol@tum.de")},
     subject : {NotGiven, Given("replies")}]

\* build_message is called
build_message_call ==
    /\ reply_call # <<>>
    /\ reply_result = <<>>
    /\ reply_result' = <<build_message(reply_call.message, reply_call.response,
                                        reply_call.msg_type, reply_call.to,
                                        reply_call.subject)>>
    /\ UNCHANGED <<reply_call, start_vars, run_vars, pre_vars, course_vars>>

InitReply ==
    /\ plugin_classes = <<>>
    /\ start_state = "done"
    /\ instantiated = <<>>
    /\ plugins = NoPlugins
    /\ RunIdle
    /\ PreIdle
    /\ CourseIdle
    /\ reply_call \in ReplyCalls
    /\ reply_result = <<>>

NextReply == build_message_call

SpecReply == InitReply /\ [][NextReply]_vars

\* the call has returned or raised, and was made without msg_type, to, subject
RepliedInKind ==
    /\ reply_result # <<>>
    /\ reply_call.msg_type = NotGiven
    /\ reply_call.to = NotGiven
    /\ reply_call.subject = NotGiven

\* C25: build_message called without msg_type, to and subject answers in
\* kind: to a private message a MESSAGE payload of type private to the
\* sender's email, to a message of any other type that has a stream id and a
\* subject a MESSAGE payload of type stream to that stream id under that
\* subject; the content is the response text in both cases.
C25_RepliesInKind ==
    RepliedInKind =>
        LET message == reply_call.message IN
        IF message.type = "private"
        THEN reply_result[1] =
                <<"MESSAGE", [type |-> "private", to |-> message.sender_email,
                              content |-> reply_call.response]>>
        ELSE {"stream_id", "subject"} \subseteq DOMAIN message =>
                reply_result[1] =
                    <<"MESSAGE", [type |-> "stream", to |-> message.stream_id,
                                  subject |-> message.subject,
                                  content |-> reply_call.response]>>

\* C25 witness: a private message has been answered in kind
C25_Witness ==
    /\ RepliedInKind
    /\ reply_call.message.type = "private"
    /\ reply_result[1][1] = "MESSAGE"

-----------------------------------------------------------------------------
(* Claims about run and its handler tasks *)

HasRaised(t) == handlers[t].state = "raised"

\* C23: a handler task that ends with an exception changes nothing of the
\* loop: run() goes on, stopped and restart stay as they are, the queue is
\* untouched; the loop only ever ends on a sentinel, and every event taken
\* after the event of the failed task is handled as usual (dispatched to the
\* plugins that answer true when preprocessing accepts it).
C23_HandlerExceptionUnobserved ==
    /\ [][\A t \in 1..Len(handlers) :
             (~HasRaised(t) /\ handlers'[t].state = "raised")
             => UNCHANGED <<run_state, stopped, restart, event_queue, dequeued,
                            outcome, tasks>>]_vars
    /\ [](\A t \in 1..Len(handlers) :
             HasRaised(t) =>
                /\ run_state \in {"loop", "returned", "AttributeError"}
                /\ run_state = "loop" => ~stopped
                /\ (run_state = "loop" /\ event_queue # <<>>) => ENABLED run
                /\ run_state # "loop" => Last(dequeued).type = "_EMPTY"
                /\ \A j \in (handlers[t].event + 1)..Len(dequeued) :
                      IsGood(dequeued[j]) =>
                          /\ outcome[j].kind = "dispatched"
                          /\ \A p \in DOMAIN plugins :
                                outcome[j].answers[p] <=> HandlersFor(j, p) # {})

\* C23 witness: the handler task of the first event had ended with an
\* exception when the second event was taken (line 200 dropped it from the
\* list), and the second event got its handler task
C23_Witness ==
    /\ run_state = "loop"
    /\ ~stopped
    /\ Len(dequeued) = 2
    /\ \E t \in HandlersOf(1) : HasRaised(t) /\ t \notin tasks
    /\ outcome[2].kind = "dispatched"
    /\ HandlersFor(2, "a") # {}

Pending(t) == handlers[t].state = "pending"

\* C24: the step that ends the loop leaves every handler task as it is, none
\* is ever cancelled, and a task that is still running when the loop has
\* ended can go on to its end.
C24_NoCancelOnShutdown ==
    /\ [][(run_state = "loop" /\ run_state' # "loop") => handlers' = handlers]_vars
    /\ [](\A t \in 1..Len(handlers) : handlers[t].state \in {"pending", "done", "raised"})
    /\ []((Exited /\ \E t \in 1..Len(handlers) : Pending(t)) => ENABLED handle_event)

\* C24 witness: a handler task that was running when the sentinel was taken
\* (line 200 kept it in the list) has returned after the loop ended
C24_Witness ==
    /\ Exited
    /\ \E t \in tasks : handlers[t].state = "done"

IsSentinel(event) == event.type = "_EMPTY"
SentinelsPut == {i \in 1..Len(arrived) : IsSentinel(arrived[i])}
\* the place of the first sentinel among the events put on the queue
FirstSentinel == CHOOSE i \in SentinelsPut : \A j \in SentinelsPut : i <= j

\* C26: once a sentinel has been put on the queue, the loop, given its turns,
\* comes to take the first sentinel put, with stopped true and the loop over;
\* stopped never goes back to false, and restart is only true when stopped is.
C26_SentinelStops ==
    /\ (SentinelsPut # {}) ~>
          (/\ Exited
           /\ stopped
           /\ dequeued = SubSeq(arrived, 1, FirstSentinel))
    /\ [][stopped => stopped']_vars
    /\ [](restart => stopped)

\* C26 witness: the loop has ended on a restart sentinel that waited behind
\* another event
C26_Witness ==
    /\ Exited
    /\ stopped
    /\ restart
    /\ Len(dequeued) = 2
    /\ dequeued[2] = Event("restart", "_EMPTY", NoData)

\* the event put on the queue in this step, by the listener
ListenerPut ==
    /\ Len(arrived') = Len(arrived) + 1
    /\ Last(arrived').sender = "_root"

\* the i-th event put on the queue is the listener's, no heartbeat, accepted
\* by preprocessing, and no sentinel was put before it (all of which stays
\* true once it is)
ToDispatch(i) ==
    /\ arrived[i].sender = "_root"
    /\ IsGood(arrived[i])
    /\ \A j \in SentinelsPut : i < j
\* the i-th event has been taken and has its handler tasks (and keeps them)
Dispatched(i) ==
    /\ Len(dequeued) >= i
    /\ dequeued[i] = arrived[i]
    /\ outcome[i].kind = "dispatched"
    /\ \A p \in DOMAIN plugins : outcome[i].answers[p] => HandlersFor(i, p) # {}

\* C27: what the listener is given by the client goes to the end of the queue
\* as an event of sender "_root" and type ZULIP, so in the order it came; and
\* the loop, given its turns, comes again and again to the point where every
\* such event that is no heartbeat, that preprocessing accepts and that no
\* sentinel precedes in the queue has a handler task on every plugin that
\* answered true, so each of them gets its tasks eventually.
C27_ListenedEventsDispatched ==
    /\ [][ListenerPut =>
             /\ Last(arrived').type = "ZULIP"
             /\ Last(arrived').data \in EventData
             /\ arrived' = Append(arrived, Last(arrived'))
             /\ event_queue' = Append(event_queue, Last(arrived'))]_vars
    /\ []<>(\A i \in 1..Len(arrived) : ToDispatch(i) => Dispatched(i))

\* C27 witness: two commands of the listener waited in the queue together and
\* both got a handler task on each of the two plugins
C27_Witness ==
    /\ DOMAIN plugins = {"a", "b"}
    /\ Len(dequeued) = 2
    /\ \A i \in 1..2 :
          /\ dequeued[i] = Event("_root", "ZULIP", CommandData)
          /\ \A p \in DOMAIN plugins : outcome[i].answers[p] /\ HandlersFor(i, p) # {}

\* C28: a sentinel is the last event the loop takes: the loop is over, no
\* plugin was asked about it, every handler task is for an event taken before
\* it, and what was put on the queue behind it stays there, while the
\* listener can still put events on the queue.
C28_NothingAfterSentinel ==
    /\ \A i \in 1..Len(dequeued) :
          IsSentinel(dequeued[i]) =>
              /\ i = Len(dequeued)
              /\ run_state # "loop"
              /\ outcome[i].asked = {}
              /\ \A t \in 1..Len(handlers) : handlers[t].event < i
    /\ arrived = dequeued \o event_queue
    /\ (Exited /\ Len(arrived) < MaxEvents) => ENABLED event_listener

\* C28 witness: the loop has ended and a command that preprocessing accepts
\* is in the queue, with no handler task for it
C28_Witness ==
    /\ Exited
    /\ Len(dequeued) = 1
    /\ event_queue = <<Event("_root", "ZULIP", CommandData)>>
    /\ handlers = <<>>
    /\ DOMAIN plugins = {"a", "b"}

-----------------------------------------------------------------------------
(* Claims about the course plugin's handling of refused commits and failed
   chat calls *)

\* the results the handlers of lines 386-388, 659-661, 679-681, 696-698 and
\* 715-717 end a command with
CouldNotResults ==
    {could_not_delete(n) : n \in CourseNames}
    \cup {could_not_update(what) : what \in {"Streamgroup", "Tutors", "Instructor-Stream"}}
    \cup {could_not_update_tutorstream}

\* task t, at the commit of create or create_empty, ends with the error reply
\* in this step
CommitFailed(t) ==
    /\ course_tasks[t].cmd \in {"create", "create_empty"}
    /\ course_tasks[t].pc = "commit"
    /\ course_tasks'[t].result = went_wrong(course_tasks[t].name)

\* C21: when the commit of create, create_empty, delete or an update helper is
\* answered with an integrity error, the command ends with a DMError and the
\* rows are what they were before the block: for delete and update the step
\* changes no row and no stream, for create and create_empty the stream group
\* and the user group made since line 143 / 263 are not there either.
C21_IntegrityErrorRolledBack ==
    [][\A t \in CourseTasks :
          /\ CommitFailed(t)
             => /\ course_tasks'[t].pc = "done"
                /\ TablesUnchanged
                /\ streamgroup_name(course_tasks[t].name) \notin
                      {g.StreamGroupId : g \in streamgroups'}
                /\ UserGroup(usergroup_name(course_tasks[t].name)) \notin usergroups'
          /\ (/\ Started(t)
              /\ course_tasks'[t].cmd \in {"delete", "update"}
              /\ course_tasks'[t].result \in CouldNotResults)
             => /\ course_tasks'[t].pc = "done"
                /\ course_tasks'[t].result.type = "DMError"
                /\ TablesUnchanged
                /\ chat_streams' = chat_streams]_vars

\* C22: when create has ended with the error reply "Something went wrong when
\* creating the course ...", also after a failed call of the chat client such
\* as subscribing the tutors, no course row of the requested name is in the
\* table.
C22_ErrorReplyLeavesNoCourse ==
    \A t \in CourseTasks :
        (/\ HasEnded(t, {"create"})
         /\ course_tasks[t].result = went_wrong(course_tasks[t].name))
        => ~NameTaken(course_tasks[t].name)

\* the course row of task t after this step
RowAfter(t) == {c \in courses' : c.CourseId = course_tasks'[t].course.CourseId}
\* the course row of task t before this step
RowBefore(t) == {c \in courses : c.CourseId = course_tasks'[t].course.CourseId}
\* task t, suspended at pc, takes its step
Resumes(t, pc) == course_tasks[t].pc = pc /\ course_tasks'[t].pc # pc
\* the results with which the two helpers refuse or fail
TutorStreamFailed == {already_set("Tutorstream"), could_not_update_tutorstream}
InstructorStreamFailed ==
    {already_set("Instructorstream"), could_not_update("Instructor-Stream")}

\* C29: the step of an update that writes the new tutor stream or instructor
\* stream has committed it in the course row and deletes no stream; the stream
\* the course had before is deleted by the step after it (the await of line
\* 700 / 719), and nothing else is; an update that ends with the no-op error
\* or with the error of a refused commit leaves the row and the streams as
\* they were. So the old stream is deleted exactly when the update committed.
C29_OldStreamDeletedAfterCommit ==
    [][\A t \in CourseTasks :
          LET task == course_tasks'[t] IN
          /\ (Started(t) /\ task.cmd = "update")
             => /\ chat_streams' = chat_streams
                /\ task.pc = "tuts" =>
                      \A c \in RowAfter(t) : c.TutorStream = task.opts["tuts"]
                /\ task.pc = "ins" =>
                      \A c \in RowAfter(t) : c.InstructorStream = task.opts["ins"]
                /\ task.result \in TutorStreamFailed =>
                      \A c \in RowAfter(t) : \E d \in RowBefore(t) :
                          c.TutorStream = d.TutorStream
                /\ task.result \in InstructorStreamFailed =>
                      \A c \in RowAfter(t) : \E d \in RowBefore(t) :
                          c.InstructorStream = d.InstructorStream
          /\ (Resumes(t, "tuts") /\ task.cmd = "update")
             => /\ chat_streams' = chat_streams \ {course_tasks[t].course.TutorStream}
                /\ task.pc = "ins" =>
                      \A c \in RowAfter(t) : c.InstructorStream = task.opts["ins"]
                /\ task.result \in InstructorStreamFailed =>
                      \A c \in RowAfter(t) : \E d \in RowBefore(t) :
                          c.InstructorStream = d.InstructorStream
          /\ (Resumes(t, "ins") /\ task.cmd = "update")
             => chat_streams' = chat_streams \ {course_tasks[t].course.InstructorStream}]_vars

\* C29 witness: an update of the tutor stream has returned: the row has the
\* new stream and the stream it had before is gone
C29_Witness ==
    \E t \in CourseTasks :
        /\ HasEnded(t, {"update"})
        /\ DOMAIN course_tasks[t].opts = {"tuts"}
        /\ course_tasks[t].result = Completed
        /\ course_tasks[t].course.TutorStream \notin chat_streams
        /\ \E c \in courses :
              /\ c.CourseId = course_tasks[t].course.CourseId
              /\ c.TutorStream = course_tasks[t].opts["tuts"]

\* C30: the first step of delete either removes the course row, committed,
\* or, when the commit is refused, ends with the DMError of line 388 and
\* leaves the row; in both cases it deletes no stream group, no user group
\* and no stream, whatever options were given. The dependents are deleted by
\* the later steps, which only a delete whose row is gone takes.
C30_RowDeletedBeforeDependents ==
    /\ [][\A t \in CourseTasks :
             LET task == course_tasks'[t] IN
             (Started(t) /\ task.cmd = "delete")
             => /\ task.course \in courses
                /\ UNCHANGED <<streamgroups, usergroups, chat_streams>>
                /\ IF task.result = could_not_delete(task.name)
                   THEN task.pc = "done" /\ courses' = courses
                   ELSE courses' = courses \ {task.course}]_vars
    /\ [](\A t \in CourseTasks :
             (Running(t) /\ course_tasks[t].cmd = "delete")
             => \A c \in courses : c.CourseId # course_tasks[t].course.CourseId)

\* C30 witness: a delete with all four options has ended with the DMError of
\* line 388; the row, its stream group, its user group and its tutor stream
\* are still there
C30_Witness ==
    \E t \in CourseTasks :
        /\ HasEnded(t, {"delete"})
        /\ DOMAIN course_tasks[t].opts = AllFour
        /\ course_tasks[t].result = could_not_delete(course_tasks[t].name)
        /\ course_tasks[t].course \in courses
        /\ course_tasks[t].course.Streams \in StreamGroupIds
        /\ UserGroup(course_tasks[t].course.Tutors) \in usergroups
        /\ course_tasks[t].course.TutorStream \in chat_streams

\* the option whose helper ended the update with this result, if one did
FailedOption(result) ==
    CASE result \in {already_set("Streamgroup"), could_not_update("Streamgroup")} -> "s"
      [] result \in {already_set("Tutorgroup"), could_not_update("Tutors")} -> "t"
      [] result \in TutorStreamFailed -> "tuts"
      [] result \in InstructorStreamFailed -> "ins"
      [] OTHER -> "none"
\* Course.update, lines 456-470: the order in which the options are looked at
UpdateOrder == <<"s", "t", "tuts", "ins">>
PlaceOf(k) == CHOOSE i \in 1..Len(UpdateOrder) : UpdateOrder[i] = k

\* C31: an update that has run on its own has applied its changes in the order
\* stream group, tutor group, tutor stream, instructor stream: either every
\* change asked for is in the course row, or one of them was rejected (no-op
\* or refused commit), the changes asked for before it are in the row, and
\* the columns of the rejected one and of those after it are as they were.
C31_UpdateInOrder ==
    \A t \in CourseTasks :
        (/\ HasEnded(t, {"update"})
         /\ course_tasks[t].solo)
        => LET task == course_tasks[t]
               failed == FailedOption(task.result)
           IN
           \E c \in courses :
              /\ c.CourseId = task.course.CourseId
              /\ IF failed = "none"
                 THEN \A k \in DOMAIN task.opts : c[ColumnOf(k)] = task.opts[k]
                 ELSE /\ failed \in DOMAIN task.opts
                      /\ \A k \in DOMAIN task.opts :
                            IF PlaceOf(k) < PlaceOf(failed)
                            THEN c[ColumnOf(k)] = task.opts[k]
                            ELSE c[ColumnOf(k)] = task.course[ColumnOf(k)]

\* C32: after a create_empty that has run on its own and replied that the
\* course is created, the course row of that name has the stream
\* <name>-Instructors as InstructorStream, another stream than its
\* TutorStream <name>-Tutoren, if option i was given, and None if it was not.
C32_InstructorStreamStored ==
    \A t \in CourseTasks :
        (/\ HasEnded(t, {"create_empty"})
         /\ course_tasks[t].solo
         /\ course_tasks[t].result = created(course_tasks[t].name))
        => \E c \in courses :
              /\ c.CourseName = course_tasks[t].name
              /\ c.TutorStream = tutors_stream_name(c.CourseName)
              /\ IF Has(course_tasks[t].opts, "i")
                 THEN /\ c.InstructorStream = instructor_stream_name(c.CourseName)
                      /\ c.InstructorStream # c.TutorStream
                 ELSE c.InstructorStream = None

CreateCommands == {"create", "create_empty"}
\* task t ends in this step, which may be the step it starts with
Ends(t) ==
    /\ course_tasks'[t].pc = "done"
    /\ course_tasks[t].pc # "done" \/ commands' # commands
\* another task is handling a create or create_empty for the name of the
\* command that task t ends
Rival(t) ==
    \E u \in CourseTasks \ {t} :
        /\ Running(u)
        /\ course_tasks[u].cmd \in CreateCommands
        /\ course_tasks[u].name = course_tasks'[t].name
\* the create or create_empty that task t ends has raced for its name: it
\* did not run alone, and if it has committed its row (create then awaits
\* the subscription, line 335) the row is still there and a rival is in
\* flight; if it has not, a rival is in flight or has committed the row of
\* that name
Races(t) ==
    /\ course_tasks'[t].cmd \in CreateCommands
    /\ ~course_tasks'[t].solo
    /\ IF course_tasks[t].pc = "subscribe"
       THEN /\ Rival(t)
            /\ \E c \in courses : c.CourseId = course_tasks[t].course.CourseId
       ELSE Rival(t) \/ NameTaken(course_tasks'[t].name)
RowsNamed(rows, name) == {c \in rows : c.CourseName = name}

\* C33: when a create or create_empty that races with another one for the
\* same name ends, it has either replied that the course is created, and
\* then there is exactly one course row of that name, or ended with a
\* user-facing error (DMError) without adding a row; there are never two
\* rows of that name, so at most one of the two replies "created".
C33_OneCreateWins ==
    [][\A t \in CourseTasks :
          (Ends(t) /\ Races(t))
          => LET name == course_tasks'[t].name
                 result == course_tasks'[t].result
             IN
             /\ Cardinality(RowsNamed(courses', name)) <= 1
             /\ IF result = created(name)
                THEN Cardinality(RowsNamed(courses', name)) = 1
                ELSE /\ result.type = "DMError"
                     /\ RowsNamed(courses', name) = RowsNamed(courses, name)]_vars

-----------------------------------------------------------------------------
(* Claims about startPlugins and names without a class *)

\* the names that a plugin name depends on, as startPlugins reads them (lines
\* 237-240), and that no class has
UnknownNames == Nodes(plugin_graph(plugin_classes)) \ ClassNames
\* a path of dependencies leads from the plugin name to a name without class
DependsOnUnknown(name) ==
    LET graph == plugin_graph(plugin_classes)
    IN Ancestors(graph, name, Cardinality(Nodes(graph))) \cap UnknownNames # {}

=============================================================================
